---------------------------- MODULE Spec2Model ----------------------------
(***************************************************************************)
(* Model of the gps-stats track-analysis engine (package stats).           *)
(*                                                                         *)
(* Modelling conventions                                                   *)
(*  - A Point is a record.  Timestamps are whole seconds.  Positions lie   *)
(*    on one meridian (constant longitude 0) and are whole metres along    *)
(*    it, so distSimple is |x2 - x1| and headingSimple is 0 (north),       *)
(*    180 (south) or -1 (undefined, distance <= 0.5 m).                    *)
(*  - Angles are integers in half degrees (Deg(d) = 2*d), so that the      *)
(*    circular mean computed by autoDetectWindDir, which lies strictly     *)
(*    between two whole degrees, has a representative.                     *)
(*  - Speeds are exact rationals [n, d] in m/s (speedUnits = UnitsMs);     *)
(*    d = 0 gives the IEEE values +Inf (n > 0) and NaN (n = 0).            *)
(*  - Go slice indices are kept: At(s, i) is s[i] of the source.           *)
(*  - A run-time panic (index out of range) is the value Panicked.         *)
(***************************************************************************)
EXTENDS Integers, Sequences, FiniteSets, TLC

VARIABLES pc, raw, deltaSpeedMax, ps, ps2, statType, windDir, autoWindTurn,
          stats, track, target, fed

vars == <<pc, raw, deltaSpeedMax, ps, ps2, statType, windDir, autoWindTurn,
          stats, track, target, fed>>

-----------------------------------------------------------------------------
(* Enumerations of the source.                                             *)

TackUnknown == "unknown"
TackStarboard == "starboard"
TackPort == "port"

TurnUnknown == "unknown"
TurnJibe == "jibe"
TurnTack == "tack"

StatAll == "all"
Stat2s == "2s"
Stat10sAvg == "10sAvg"
Stat10s1 == "10s1"
Stat10s2 == "10s2"
Stat10s3 == "10s3"
Stat10s4 == "10s4"
Stat10s5 == "10s5"
Stat15m == "15m"
Stat1h == "1h"
Stat100m == "100m"
Stat1nm == "1nm"
StatAlpha == "alpha"
StatDistance == "dist"
StatDuration == "dur"

Panicked == "panic"

-----------------------------------------------------------------------------
(* Helpers.                                                                *)

At(s, i) == s[i + 1]

Abs(n) == IF n < 0 THEN -n ELSE n

Deg(d) == 2 * d

\* s[i:] of the source
SliceFrom(s, i) == SubSeq(s, i + 1, Len(s))

\* The Point built by readPointSbn and indexed by ReadPointsSbn.
Point(ts, x, idx) ==
    [ts |-> ts, x |-> x, globalIdx |-> idx, usedFor10s |-> FALSE,
     heading |-> Deg(-1), tackSide |-> TackUnknown]

\* The metres east of the meridian of the first point: the points read from
\* a recording on one meridian carry no east coordinate.
East(p) == IF "east" \in DOMAIN p THEN p.east ELSE 0

\* math.Sqrt(sq(a) + sq(b)) for whole metres a >= b >= 0, rounded down to
\* whole metres (the root lies in a..a+b, and is below a + 1 when b*b < 2a + 1).
Hypot(a, b) ==
    IF b * b < 2 * a + 1 THEN a
    ELSE CHOOSE n \in a..(a + b) :
            n * n <= a * a + b * b /\ a * a + b * b < (n + 1) * (n + 1)

\* distSimple for the metres dLatM to the north and dLonM to the east; on
\* one meridian dLonM = 0 and the distance is |dLatM|, exactly.
distSimple(dLatM, dLonM) ==
    IF dLonM = 0 THEN Abs(dLatM)
    ELSE IF Abs(dLatM) >= Abs(dLonM) THEN Hypot(Abs(dLatM), Abs(dLonM))
    ELSE Hypot(Abs(dLonM), Abs(dLatM))

distance(p1, p2) == distSimple(p2.x - p1.x, East(p2) - East(p1))

\* A speed as an exact rational.
Rat(n, d) == [n |-> n, d |-> d]
Zero == Rat(0, 1)
IsNaN(a) == a.d = 0 /\ a.n = 0
IsInf(a) == a.d = 0 /\ a.n > 0

\* a < b on non-negative IEEE values.
Lt(a, b) ==
    /\ ~IsNaN(a)
    /\ ~IsNaN(b)
    /\ ~IsInf(a)
    /\ (IsInf(b) \/ a.n * b.d < b.n * a.d)

\* speed(p1, p2, UnitsMs) = distance / seconds.
speed(p1, p2) == Rat(distance(p1, p2), p2.ts - p1.ts)

-----------------------------------------------------------------------------
(* CleanUp.                                                                *)

\* The inner loop that walks over a run of missing points: returns idxLast.
RECURSIVE GapLast(_, _, _, _)
GapLast(psCurr, idxNext, idxLast, dt) ==
    IF idxNext < Len(psCurr) - 1 /\ dt > 1
    THEN GapLast(psCurr, idxNext + 1, idxNext,
                 At(psCurr, idxNext + 1).ts - At(psCurr, idxNext).ts)
    ELSE idxLast

\* Stage A: the loop over idxPs = 1 .. psLen-1, psCleaned seeded with psCurr[0].
RECURSIVE StageALoop(_, _, _)
StageALoop(psCurr, idxPs, psCleaned) ==
    LET psLen == Len(psCurr) IN
    IF idxPs >= psLen THEN psCleaned
    ELSE LET pCurr == At(psCurr, idxPs) IN
         IF idxPs < psLen - 1
         THEN LET pNext == At(psCurr, idxPs + 1)
                  dt == pNext.ts - pCurr.ts
              IN  IF pCurr.ts = pNext.ts
                  THEN StageALoop(psCurr, idxPs + 2, psCleaned)
                  ELSE IF dt > 1
                       THEN LET idxLast == GapLast(psCurr, idxPs + 1, idxPs + 1, dt)
                            IN  StageALoop(psCurr, idxLast + 3, psCleaned)
                       ELSE StageALoop(psCurr, idxPs + 1, Append(psCleaned, pCurr))
         ELSE StageALoop(psCurr, idxPs + 1, Append(psCleaned, pCurr))

StageA(psCurr) == StageALoop(psCurr, 1, <<At(psCurr, 0)>>)

\* The acceptance test of Stage B:
\*   (diffDelta1 < deltaSpeedMax) || speed0Delta < 0
\* speedCur and speedNext1 are finite (timestamps of Stage A points are
\* strictly increasing from index 1 on); speedPrev may be +Inf or NaN when
\* the first two points share a timestamp.
StageBAccept(speedPrev, speedCur, speedNext1, dsm) ==
    IF IsNaN(speedPrev) THEN FALSE
    ELSE IF IsInf(speedPrev) THEN TRUE
    ELSE LET pn == speedPrev.n
             pd == speedPrev.d
             cn == speedCur.n
             cd == speedCur.d
             nn == speedNext1.n
             nd == speedNext1.d
         IN  \/ 2 * cn * pd * nd - pn * cd * nd - nn * cd * pd < dsm * cd * pd * nd
             \/ cn * pd < pn * cd

\* Stage B with a speedPrev that stays the speed of the first two points.
RECURSIVE StageBLoopStalePrev(_, _, _, _, _)
StageBLoopStalePrev(psCurr, idxPs, resPs, speedPrev, dsm) ==
    IF idxPs >= Len(psCurr) - 1 THEN resPs
    ELSE LET idxRes == Len(resPs) - 1
             speedCur == speed(At(resPs, idxRes), At(psCurr, idxPs))
             speedNext1 == speed(At(psCurr, idxPs), At(psCurr, idxPs + 1))
         IN  IF StageBAccept(speedPrev, speedCur, speedNext1, dsm)
             THEN StageBLoopStalePrev(psCurr, idxPs + 1,
                      Append(resPs, [At(psCurr, idxPs) EXCEPT !.globalIdx = idxRes + 1]),
                      speedPrev, dsm)
             ELSE StageBLoopStalePrev(psCurr, idxPs + 1, resPs, speedPrev, dsm)

\* Stage B: the loop over idxPs = 2 .. len(psCurr)-2; idxRes = len(res)-1.
RECURSIVE StageBLoop(_, _, _, _, _)
StageBLoop(psCurr, idxPs, resPs, speedPrev, dsm) ==
    IF idxPs >= Len(psCurr) - 1 THEN resPs
    ELSE LET idxRes == Len(resPs) - 1
             speedCur == speed(At(resPs, idxRes), At(psCurr, idxPs))
             speedNext1 == speed(At(psCurr, idxPs), At(psCurr, idxPs + 1))
         IN  IF StageBAccept(speedPrev, speedCur, speedNext1, dsm)
             THEN StageBLoop(psCurr, idxPs + 1,
                             Append(resPs, [At(psCurr, idxPs) EXCEPT !.globalIdx = idxRes + 1]),
                             speedCur, dsm)
             ELSE StageBLoop(psCurr, idxPs + 1, resPs, speedPrev, dsm)

\* CleanUp(points, deltaSpeedMax, UnitsMs): the cleaned points; panic is set
\* when psCurr[1] is read from a Stage A result of one point.
CleanUp(points, dsm) ==
    IF Len(points) > 1
    THEN LET psCurr == StageA(points) IN
         IF Len(psCurr) < 2 THEN [panic |-> TRUE, ps |-> <<>>]
         ELSE [panic |-> FALSE,
               ps |-> StageBLoop(psCurr, 2, <<At(psCurr, 0), At(psCurr, 1)>>,
                                 speed(At(psCurr, 0), At(psCurr, 1)), dsm)]
    ELSE [panic |-> FALSE, ps |-> <<>>]

-----------------------------------------------------------------------------
(* Track and the window engine.                                            *)

\* Track{speedUnits: speedUnits}
EmptyTrack ==
    [ps |-> <<>>, duration |-> 0, distance |-> 0, speed |-> Zero, valid |-> FALSE]

\* Track.TackSide(): the tack side of the first point.
TrackTackSide(t) == IF Len(t.ps) > 0 THEN At(t.ps, 0).tackSide ELSE TackUnknown

\* Sums over a point list, as reCalculate accumulates them.
RECURSIVE SumDistance(_)
SumDistance(pts) ==
    IF Len(pts) < 2 THEN 0
    ELSE distance(pts[1], pts[2]) + SumDistance(Tail(pts))

RECURSIVE SumDuration(_)
SumDuration(pts) ==
    IF Len(pts) < 2 THEN 0
    ELSE (pts[2].ts - pts[1].ts) + SumDuration(Tail(pts))

\* Track.reCalculate()
reCalculate(t) ==
    LET dur == SumDuration(t.ps)
        dist == SumDistance(t.ps)
    IN  [t EXCEPT !.duration = dur, !.distance = dist,
                  !.speed = IF dur > 0 THEN Rat(dist, dur) ELSE Zero]

\* The trimming loop of addPointMinDurationUnused10s:
\*   for durTest >= minDuration && len(t.ps) > 2 { ... }
RECURSIVE TrimMinDuration(_, _)
TrimMinDuration(t, minDuration) ==
    LET durTest == t.duration - (At(t.ps, 1).ts - At(t.ps, 0).ts) IN
    IF durTest >= minDuration /\ Len(t.ps) > 2
    THEN TrimMinDuration([t EXCEPT !.duration = durTest,
                                   !.distance = t.distance - distance(At(t.ps, 0), At(t.ps, 1)),
                                   !.ps = Tail(t.ps)],
                         minDuration)
    ELSE t

addPointMinDurationUnused10s(t, p, minDuration, unused10sOnly) ==
    IF unused10sOnly /\ p.usedFor10s THEN EmptyTrack
    ELSE LET pts == Append(t.ps, p)
             l == Len(pts)
         IN  IF l > 1
             THEN LET dur == t.duration + (At(pts, l - 1).ts - At(pts, l - 2).ts)
                      dist == t.distance + distance(At(pts, l - 2), At(pts, l - 1))
                      t1 == [ps |-> pts, duration |-> dur, distance |-> dist,
                             speed |-> Rat(dist, dur), valid |-> dur >= minDuration]
                  IN  IF t1.duration > minDuration /\ Len(t1.ps) > 2
                      THEN LET t2 == TrimMinDuration(t1, minDuration)
                           IN  [t2 EXCEPT !.speed = Rat(t2.distance, t2.duration)]
                      ELSE t1
             ELSE [t EXCEPT !.ps = pts]

addPointMinDuration(t, p, minDuration) ==
    addPointMinDurationUnused10s(t, p, minDuration, FALSE)

\* A trimming loop that forgets to take the dropped segment's seconds off
\* the running duration.
RECURSIVE TrimMinDistanceKeepsDuration(_, _)
TrimMinDistanceKeepsDuration(t, minDistance) ==
    LET distTest == t.distance - distance(At(t.ps, 0), At(t.ps, 1)) IN
    IF distTest >= minDistance /\ Len(t.ps) > 2
    THEN TrimMinDistanceKeepsDuration([t EXCEPT !.distance = distTest, !.ps = Tail(t.ps)],
                                      minDistance)
    ELSE t

\* The trimming loop of addPointMinDistance:
\*   for distTest >= minDistance && len(t.ps) > 2 { ... }
RECURSIVE TrimMinDistance(_, _)
TrimMinDistance(t, minDistance) ==
    LET distTest == t.distance - distance(At(t.ps, 0), At(t.ps, 1)) IN
    IF distTest >= minDistance /\ Len(t.ps) > 2
    THEN TrimMinDistance([t EXCEPT !.distance = distTest,
                                   !.duration = t.duration - (At(t.ps, 1).ts - At(t.ps, 0).ts),
                                   !.ps = Tail(t.ps)],
                         minDistance)
    ELSE t

addPointMinDistance(t, p, minDistance) ==
    LET pts == Append(t.ps, p)
        l == Len(pts)
    IN  IF l > 1
        THEN LET dur == t.duration + (At(pts, l - 1).ts - At(pts, l - 2).ts)
                 dist == t.distance + distance(At(pts, l - 2), At(pts, l - 1))
                 t1 == [ps |-> pts, duration |-> dur, distance |-> dist,
                        speed |-> Rat(dist, dur), valid |-> dist >= minDistance]
             IN  IF t1.distance > minDistance /\ Len(t1.ps) > 2
                 THEN LET t2 == TrimMinDistance(t1, minDistance)
                      IN  [t2 EXCEPT !.speed = Rat(t2.distance, t2.duration)]
                 ELSE t1
        ELSE [t EXCEPT !.ps = pts]

-----------------------------------------------------------------------------
(* Geometry, tack side and turn type.                                      *)

\* math.Mod(a, m) for m > 0: the result has the sign of a.
Mod(a, m) == IF a >= 0 THEN a % m ELSE -((-a) % m)

\* tan of the angles 0.25, 0.75, ..., 44.75 degrees, times 10000: the
\* angles half way between two neighbouring half degrees of the first octant.
TanMid ==
    <<44, 131, 218, 306, 393, 480, 568, 655, 743, 831, 919, 1007, 1095, 1184,
      1272, 1361, 1450, 1539, 1629, 1718, 1808, 1899, 1989, 2080, 2171, 2263,
      2355, 2447, 2540, 2633, 2726, 2820, 2915, 3010, 3105, 3201, 3298, 3395,
      3492, 3590, 3689, 3789, 3889, 3990, 4091, 4193, 4296, 4400, 4505, 4610,
      4716, 4823, 4931, 5040, 5150, 5261, 5373, 5486, 5600, 5715, 5832, 5949,
      6068, 6188, 6310, 6432, 6556, 6682, 6809, 6937, 7067, 7199, 7332, 7467,
      7604, 7743, 7883, 8026, 8170, 8317, 8466, 8617, 8770, 8925, 9083, 9244,
      9407, 9573, 9742, 9913>>

\* math.Atan2(p, q) * 180 / math.Pi for 0 <= p <= q, q > 0, as the nearest
\* half degree (below a slope of 1/200 the angle is under 0.25 degrees).
AtanOctant(p, q) ==
    IF p * 200 < q THEN 0
    ELSE Cardinality({ k \in 1..90 : TanMid[k] * q <= p * 10000 })

\* math.Atan2(y, x) * 180 / math.Pi for x, y >= 0, not both 0.
AtanQuadrant(y, x) ==
    IF y <= x THEN AtanOctant(y, x) ELSE Deg(90) - AtanOctant(x, y)

\* math.Atan2(y, x) * 180 / math.Pi, in (-180, 180] degrees.
Atan2(y, x) ==
    IF x >= 0
    THEN (IF y >= 0 THEN AtanQuadrant(y, x) ELSE -AtanQuadrant(-y, x))
    ELSE (IF y >= 0 THEN Deg(180) - AtanQuadrant(y, -x)
          ELSE AtanQuadrant(-y, -x) - Deg(180))

\* headingSimple: undefined up to 0.5 m; on one meridian north (0) or
\* south (180).
headingSimple(dLatM, dLonM) ==
    IF distSimple(dLatM, dLonM) < 1 THEN Deg(-1)
    ELSE IF dLonM = 0 THEN (IF dLatM > 0 THEN Deg(0) ELSE Deg(180))
    ELSE Mod(Deg(90) - Atan2(dLatM, dLonM) + Deg(360), Deg(360))

heading(p1, p2) == headingSimple(p2.x - p1.x, East(p2) - East(p1))

\* angleDiff(angle1, angle2)
angleDiff(angle1, angle2) ==
    LET diff == Mod(angle2 - angle1 + Deg(360), Deg(360)) IN
    IF diff > Deg(180) THEN Deg(360) - diff ELSE diff

\* A side classifier whose dead zone around the wind axis is 20 degrees wide.
detectTackSideNarrowDeadZone(h, wd) ==
    IF wd < 0 \/ h < 0 THEN TackUnknown
    ELSE LET relHeading == Mod(wd - h + Deg(360), Deg(360)) IN
         IF relHeading >= Deg(20) /\ relHeading <= Deg(160) THEN TackStarboard
         ELSE IF relHeading >= Deg(200) /\ relHeading <= Deg(340) THEN TackPort
         ELSE TackUnknown

detectTackSideFromHeading(h, wd) ==
    IF wd < 0 \/ h < 0 THEN TackUnknown
    ELSE LET relHeading == Mod(wd - h + Deg(360), Deg(360)) IN
         IF relHeading >= Deg(30) /\ relHeading <= Deg(150) THEN TackStarboard
         ELSE IF relHeading >= Deg(210) /\ relHeading <= Deg(330) THEN TackPort
         ELSE TackUnknown

detectTurnTypeFromTurnHeading(h, wd) ==
    LET diff == angleDiff(h, wd) IN
    IF diff < Deg(60) THEN TurnTack
    ELSE IF diff > Deg(180) - Deg(60) THEN TurnJibe
    ELSE TurnUnknown

detectTurnTypeFromTurnPoints(pTurnBegin, pTurnEnd, wd) ==
    IF distance(pTurnBegin, pTurnEnd) >= 1
    THEN detectTurnTypeFromTurnHeading(heading(pTurnBegin, pTurnEnd), wd)
    ELSE TurnUnknown

\* Point{}: the zero value (lat 0, lon 0, heading 0).  The recordings start
\* at x = 0 on the meridian, in the northern hemisphere: the point at
\* latitude 0 lies due south of every recorded point.
ZeroPoint == [Point(0, -5000000, 0) EXCEPT !.heading = 0]

\* The loop of detectTurnType: the last point on the initial tack side and
\* the first point on the opposite side.
RECURSIVE TurnPoints(_, _, _)
TurnPoints(pts, i, pTurnBegin) ==
    IF i >= Len(pts) THEN <<pTurnBegin, ZeroPoint>>
    ELSE LET p == At(pts, i) IN
         IF p.tackSide # TackUnknown
         THEN IF pTurnBegin.tackSide = TackUnknown \/ pTurnBegin.tackSide = p.tackSide
              THEN TurnPoints(pts, i + 1, p)
              ELSE <<pTurnBegin, p>>
         ELSE TurnPoints(pts, i + 1, pTurnBegin)

detectTurnType(pts, wd) ==
    IF Len(pts) < 2 THEN TurnUnknown
    ELSE LET be == TurnPoints(pts, 0, ZeroPoint)
         IN  detectTurnTypeFromTurnPoints(be[1], be[2], wd)

-----------------------------------------------------------------------------
(* Turn engine.                                                            *)

\* Step 1 of addPointTurnMaxDistance, the loop
\*   for distTest > maxDistance && l > 2 && t.ps[0].tackSide != TackUnknown
RECURSIVE TurnTrimLoop(_, _)
TurnTrimLoop(t, maxDistance) ==
    LET distTest == t.distance - distance(At(t.ps, 0), At(t.ps, 1)) IN
    IF distTest > maxDistance /\ Len(t.ps) > 2 /\ At(t.ps, 0).tackSide # TackUnknown
    THEN TurnTrimLoop([t EXCEPT !.distance = distTest,
                                !.duration = t.duration - (At(t.ps, 1).ts - At(t.ps, 0).ts),
                                !.ps = Tail(t.ps)],
                      maxDistance)
    ELSE t

\* Step 1: the loop, then the unconditional removal of one more point.
TurnTrim(t, maxDistance) ==
    IF t.distance > maxDistance /\ Len(t.ps) > 2
    THEN LET t1 == TurnTrimLoop(t, maxDistance) IN
         [t1 EXCEPT !.distance = t1.distance - distance(At(t1.ps, 0), At(t1.ps, 1)),
                    !.duration = t1.duration - (At(t1.ps, 1).ts - At(t1.ps, 0).ts),
                    !.ps = Tail(t1.ps)]
    ELSE t

\* Step 2: points of unknown tack side are dropped from the end while more
\* than two points remain.
RECURSIVE DropUnknownTail(_)
DropUnknownTail(pts) ==
    IF pts[Len(pts)].tackSide = TackUnknown /\ Len(pts) > 2
    THEN DropUnknownTail(SubSeq(pts, 1, Len(pts) - 1))
    ELSE pts

\* Step 4: the loop over i = 0 .. l-3 looking for the gate; the index found,
\* or -1.
RECURSIVE GateSearch(_, _, _, _, _, _)
GateSearch(pts, i, subtrackDistance, firstPointTackSide, minDistance, gateSize) ==
    LET l == Len(pts) IN
    IF i >= l - 2 THEN -1
    ELSE IF subtrackDistance < minDistance THEN -1
    ELSE IF At(pts, i).tackSide # firstPointTackSide THEN -1
    ELSE IF At(pts, i).tackSide = TackUnknown
         THEN GateSearch(pts, i + 1,
                         subtrackDistance - distance(At(pts, i), At(pts, i + 1)),
                         firstPointTackSide, minDistance, gateSize)
    ELSE IF distance(At(pts, i), At(pts, l - 1)) <= gateSize
            /\ subtrackDistance >= minDistance
         THEN i
    ELSE GateSearch(pts, i + 1,
                    subtrackDistance - distance(At(pts, i), At(pts, i + 1)),
                    firstPointTackSide, minDistance, gateSize)

\* addPointTurnMaxDistance: the pair (track, subtrack).
addPointTurnMaxDistance(t, p, maxDistance, minDistance, gateSize) ==
    IF Len(t.ps) = 0 /\ p.heading < 0 THEN [t |-> t, sub |-> EmptyTrack]
    ELSE LET pts == Append(t.ps, p)
             l == Len(pts)
         IN  IF l > 1
             THEN LET firstPointTackSide == At(pts, 0).tackSide
                      t0 == [t EXCEPT !.ps = pts,
                                      !.duration = t.duration + (At(pts, l - 1).ts - At(pts, l - 2).ts),
                                      !.distance = t.distance + distance(At(pts, l - 2), At(pts, l - 1))]
                      t1 == TurnTrim(t0, maxDistance)
                      t2 == [t1 EXCEPT !.ps = DropUnknownTail(t1.ps)]
                      lastPointTackSide == t2.ps[Len(t2.ps)].tackSide
                      i == IF lastPointTackSide # TackUnknown
                              /\ lastPointTackSide # firstPointTackSide
                           THEN GateSearch(t2.ps, 0, t2.distance, firstPointTackSide,
                                           minDistance, gateSize)
                           ELSE -1
                  IN  [t |-> t2,
                       sub |-> IF i >= 0
                               THEN reCalculate([EmptyTrack EXCEPT !.ps = SliceFrom(t2.ps, i),
                                                                   !.valid = TRUE])
                               ELSE EmptyTrack]
             ELSE [t |-> [t EXCEPT !.ps = pts], sub |-> EmptyTrack]

\* A turn engine that reports the whole track of three or more points as
\* the turn, without looking at the tack sides of its ends.
WholeTrackAsTurn(r) ==
    [t |-> r.t,
     sub |-> IF Len(r.t.ps) > 2
             THEN reCalculate([EmptyTrack EXCEPT !.ps = r.t.ps, !.valid = TRUE])
             ELSE EmptyTrack]

addPointTurnAnyEnds(t, p) == WholeTrackAsTurn(addPointTurnMaxDistance(t, p, 500, 10, 50))

\* The turn engine with a gate of 400 m.
addPointTurnWideGate(t, p) == addPointTurnMaxDistance(t, p, 500, 10, 400)

\* addPointTurn500: maxDistance 500, minDistance 10, gateSize 50.
addPointTurn500(t, p) == addPointTurnMaxDistance(t, p, 500, 10, 50)

\* findMaxTurnSubtrack: the fastest subtrack of a single-turn track.
RECURSIVE MaxTurnSubtrackLoop(_, _, _, _)
MaxTurnSubtrackLoop(turnPs, psIdx, trackTurn500m, subtrackTurn500mMax) ==
    IF psIdx >= Len(turnPs) THEN subtrackTurn500mMax
    ELSE LET r == addPointTurn500(trackTurn500m, At(turnPs, psIdx))
         IN  MaxTurnSubtrackLoop(turnPs, psIdx + 1, r.t,
                 IF r.sub.valid /\ Lt(subtrackTurn500mMax.speed, r.sub.speed)
                 THEN r.sub ELSE subtrackTurn500mMax)

findMaxTurnSubtrack(turnTrack) ==
    MaxTurnSubtrackLoop(turnTrack.ps, 0, EmptyTrack, EmptyTrack)

\* collectTurnTracks: the loop state is (turnTracks, currTrack, nextTrack,
\* currSide, currTrackTacksCount, totalTacksNo).
RECURSIVE CollectLoop(_, _, _)
CollectLoop(pts, psIdx, c) ==
    IF psIdx >= Len(pts)
    THEN (IF c.currTrackTacksCount > 1
          THEN Append(c.turnTracks, [EmptyTrack EXCEPT !.ps = c.currTrack])
          ELSE c.turnTracks)
    ELSE LET p == At(pts, psIdx)
             change == p.tackSide # TackUnknown /\ p.tackSide # c.currSide
             c1 == IF change
                   THEN [c EXCEPT !.currSide = p.tackSide,
                                  !.currTrackTacksCount = c.currTrackTacksCount + 1,
                                  !.totalTacksNo = c.totalTacksNo + 1]
                   ELSE c
             c2 == IF c1.totalTacksNo > 0
                   THEN IF c1.currTrackTacksCount <= 2
                        THEN [c1 EXCEPT
                                !.currTrack = Append(c1.currTrack, p),
                                !.nextTrack =
                                    IF c1.totalTacksNo > 1
                                       /\ (Len(c1.nextTrack) > 0 \/ p.tackSide # TackUnknown)
                                    THEN Append(c1.nextTrack, p)
                                    ELSE c1.nextTrack]
                        ELSE [c1 EXCEPT
                                !.turnTracks = Append(c1.turnTracks,
                                                      [EmptyTrack EXCEPT !.ps = c1.currTrack]),
                                !.currTrack = Append(c1.nextTrack, p),
                                !.nextTrack = <<>>,
                                !.currTrackTacksCount = 2]
                   ELSE c1
         IN  CollectLoop(pts, psIdx + 1, c2)

collectTurnTracks(pts) ==
    CollectLoop(pts, 0, [turnTracks |-> <<>>, currTrack |-> <<>>, nextTrack |-> <<>>,
                         currSide |-> TackUnknown, currTrackTacksCount |-> 0,
                         totalTacksNo |-> 0])

-----------------------------------------------------------------------------
(* Wind direction detector.                                                *)

\* int(p.heading/10) % 36; Go truncates -0.1 to 0.
BinOf(h) == IF h < 0 THEN 0 ELSE (h \div Deg(10)) % 36

BinCount(pts, b) == Cardinality({i \in 1..Len(pts) : BinOf(pts[i].heading) = b})

MaxOf(S) == CHOOSE m \in S : \A n \in S : n <= m
MinOf(S) == CHOOSE m \in S : \A n \in S : m <= n

\* The most populated bin, the first one on a tie; -1 when all are empty.
PrimaryBin(pts) ==
    LET primaryCount == MaxOf({BinCount(pts, b) : b \in 0..35}) IN
    IF primaryCount = 0 THEN -1
    ELSE MinOf({b \in 0..35 : BinCount(pts, b) = primaryCount})

\* The most populated bin among oppositeBin-1, oppositeBin, oppositeBin+1,
\* the first one in that order on a tie; -1 when all three are empty.
SecondaryBin(pts, primaryBin) ==
    LET oppositeBin == (primaryBin + 18) % 36
        cand(offset) == (oppositeBin + offset + 36) % 36
        secondaryCount == MaxOf({BinCount(pts, cand(o)) : o \in {-1, 0, 1}})
    IN  IF secondaryCount = 0 THEN -1
        ELSE cand(MinOf({o \in {-1, 0, 1} : BinCount(pts, cand(o)) = secondaryCount}))

\* Step 4: the headings of the primary bin and its neighbours, and those of
\* the secondary bin and its neighbours rotated by 180 degrees.
RECURSIVE SelectedHeadings(_, _, _, _)
SelectedHeadings(pts, i, primaryBin, secondaryBin) ==
    IF i >= Len(pts) THEN <<>>
    ELSE LET h == At(pts, i).heading
             bin == BinOf(h)
             rest == SelectedHeadings(pts, i + 1, primaryBin, secondaryBin)
         IN  IF bin = primaryBin \/ bin = (primaryBin + 1) % 36 \/ bin = (primaryBin + 35) % 36
             THEN <<h>> \o rest
             ELSE IF bin = secondaryBin \/ bin = (secondaryBin + 1) % 36
                     \/ bin = (secondaryBin + 35) % 36
                  THEN <<(h + Deg(180)) % Deg(360)>> \o rest
                  ELSE rest

\* Step 5: atan2(sum sin, sum cos) of the selected headings.  On one
\* meridian, and on a course whose legs run along the eight compass points
\* (headings that are multiples of 45 degrees, in bins that are not
\* neighbours), the selected headings are all equal, or take two values one
\* degree apart (-1 and 0, or 179 and 180): the mean then lies strictly
\* between the two and is represented by the half degree between them.
CircularMean(hs) ==
    LET vals == {hs[i] : i \in 1..Len(hs)}
        lo == MinOf(vals)
        hi == MaxOf(vals)
    IN  IF lo = hi THEN lo ELSE lo + (hi - lo) \div 2

\* Step 6: the replay that counts jibes and tacks against wdAssumed; the
\* loop state is (pTurnBegin, tackSidePrev, tackSideCurr, jibeCnt, tackCnt).
RECURSIVE ReplayTurns(_, _, _, _)
ReplayTurns(pts, i, wdAssumed, r) ==
    IF i >= Len(pts) THEN r
    ELSE LET p == At(pts, i)
             t == detectTackSideFromHeading(p.heading, wdAssumed)
             r1 == IF t = TackUnknown THEN r
                   ELSE IF r.tackSidePrev = TackUnknown
                        THEN [r EXCEPT !.tackSidePrev = t, !.tackSideCurr = t]
                   ELSE IF t = r.tackSideCurr
                        THEN [r EXCEPT !.pTurnBegin = p]
                   ELSE LET turnType == detectTurnTypeFromTurnPoints(r.pTurnBegin, p, wdAssumed)
                        IN  [r EXCEPT !.tackSideCurr = t, !.tackSidePrev = t,
                                      !.jibeCnt = IF turnType = TurnJibe THEN @ + 1 ELSE @,
                                      !.tackCnt = IF turnType = TurnTack THEN @ + 1 ELSE @]
         IN  ReplayTurns(pts, i + 1, wdAssumed, r1)

\* A detector that skips the replay of step 6 and returns the first candidate.
autoDetectWindDirFirstCandidate(pts, prefer) ==
    IF Len(pts) < 2 THEN Deg(-1)
    ELSE LET primaryBin == PrimaryBin(pts) IN
         IF primaryBin = -1 THEN Deg(-1)
         ELSE LET secondaryBin == SecondaryBin(pts, primaryBin) IN
              IF secondaryBin = -1 THEN Deg(-1)
              ELSE LET selected == SelectedHeadings(pts, 0, primaryBin, secondaryBin) IN
                   IF Len(selected) = 0 THEN Deg(-1)
                   ELSE LET mean == CircularMean(selected)
                            avgHeading == IF mean < 0 THEN mean + Deg(360) ELSE mean
                        IN  (avgHeading + Deg(90)) % Deg(360)

autoDetectWindDir(pts, prefer) ==
    IF Len(pts) < 2 THEN Deg(-1)
    ELSE LET primaryBin == PrimaryBin(pts) IN
         IF primaryBin = -1 THEN Deg(-1)
         ELSE LET secondaryBin == SecondaryBin(pts, primaryBin) IN
              IF secondaryBin = -1 THEN Deg(-1)
              ELSE LET selected == SelectedHeadings(pts, 0, primaryBin, secondaryBin) IN
                   IF Len(selected) = 0 THEN Deg(-1)
                   ELSE LET mean == CircularMean(selected)
                            avgHeading == IF mean < 0 THEN mean + Deg(360) ELSE mean
                            wdAssumed == (avgHeading + Deg(90)) % Deg(360)
                            wdOpposite == (avgHeading - Deg(90) + Deg(360)) % Deg(360)
                            r == ReplayTurns(pts, 0, wdAssumed,
                                     [pTurnBegin |-> [ZeroPoint EXCEPT !.heading = Deg(-1)],
                                      tackSidePrev |-> TackUnknown,
                                      tackSideCurr |-> TackUnknown,
                                      jibeCnt |-> 0, tackCnt |-> 0])
                        IN  IF prefer = TurnTack
                            THEN (IF r.tackCnt >= r.jibeCnt THEN wdAssumed ELSE wdOpposite)
                            ELSE (IF r.jibeCnt >= r.tackCnt THEN wdAssumed ELSE wdOpposite)

-----------------------------------------------------------------------------
(* CalculateStats.                                                         *)

FiveEmptyTracks == <<EmptyTrack, EmptyTrack, EmptyTrack, EmptyTrack, EmptyTrack>>

\* Stats{speedUnits: speedUnits, wDirKnown: windDirKnown} with the three
\* 5x10 s arrays filled with empty tracks.
InitialStats(windDirKnown, wd) ==
    [totalDistance |-> 0, totalDuration |-> Zero, unknTurnsCount |-> 0,
     speed2s |-> EmptyTrack, speed5x10s |-> FiveEmptyTracks,
     speed15m |-> EmptyTrack, speed1h |-> EmptyTrack,
     speed100m |-> EmptyTrack, speed1NM |-> EmptyTrack,
     alpha500m |-> EmptyTrack, wDirKnown |-> windDirKnown,
     wDirStats |->
        [windDirection |-> wd, jibesCount |-> 0, tacksCount |-> 0,
         alpha500m |-> EmptyTrack, delta500m |-> EmptyTrack,
         starboardSpeed2s |-> EmptyTrack, starboardSpeed5x10s |-> FiveEmptyTracks,
         starboardSpeed100m |-> EmptyTrack, starboardAlpha500m |-> EmptyTrack,
         starboardDelta500m |-> EmptyTrack,
         portSpeed2s |-> EmptyTrack, portSpeed5x10s |-> FiveEmptyTracks,
         portSpeed100m |-> EmptyTrack, portAlpha500m |-> EmptyTrack,
         portDelta500m |-> EmptyTrack]]

\* ps[i].heading = heading(ps[i-1], ps[i]) for i >= 1; the headings are
\* computed from positions, so the order of the assignments does not matter.
WithHeadings(pts) ==
    [i \in 1..Len(pts) |->
        IF i = 1 THEN pts[i] ELSE [pts[i] EXCEPT !.heading = heading(pts[i - 1], pts[i])]]

\* ps[i].tackSide = detectTackSideFromHeading(ps[i].heading, windDir), i >= 1
WithTackSides(pts, wd) ==
    [i \in 1..Len(pts) |->
        IF i = 1 THEN pts[i]
        ELSE [pts[i] EXCEPT !.tackSide = detectTackSideFromHeading(pts[i].heading, wd)]]

\* A selection that takes every valid window, whatever the speed of the best.
BetterTakesLast(best, t) == IF t.valid THEN t ELSE best

\* if track.valid && best.speed < track.speed { best = track }
Better(best, t) == IF t.valid /\ Lt(best.speed, t.speed) THEN t ELSE best

\* The same, for a track that starts on the given tack side.
BetterOnSide(best, t, side) ==
    IF TrackTackSide(t) = side /\ t.valid /\ Lt(best.speed, t.speed) THEN t ELSE best

\* One switch statType { ... } of the main loop: the trackers the selector feeds.
FeedTrackers(a, p, st) ==
    [a EXCEPT
       !.track2s = IF st \in {StatAll, Stat2s} THEN addPointMinDuration(@, p, 2) ELSE @,
       !.track15m = IF st \in {StatAll, Stat15m} THEN addPointMinDuration(@, p, 900) ELSE @,
       !.track1h = IF st \in {StatAll, Stat1h} THEN addPointMinDuration(@, p, 3600) ELSE @,
       !.track100m = IF st \in {StatAll, Stat100m} THEN addPointMinDistance(@, p, 100) ELSE @,
       !.track1NM = IF st \in {StatAll, Stat1nm} THEN addPointMinDistance(@, p, 1852) ELSE @]

\* The loop "for i := 1; i < len(ps); i++" over all values except turns and 5x10.
RECURSIVE MainLoop(_, _, _, _)
MainLoop(pts, i, a, st) ==
    IF i >= Len(pts) THEN a
    ELSE LET a1 == FeedTrackers(a, At(pts, i), st)
             r == a1.res
             w == r.wDirStats
             w1 == [w EXCEPT
                      !.starboardSpeed2s = BetterOnSide(@, a1.track2s, TackStarboard),
                      !.starboardSpeed100m = BetterOnSide(@, a1.track100m, TackStarboard),
                      !.portSpeed2s = BetterOnSide(@, a1.track2s, TackPort),
                      !.portSpeed100m = BetterOnSide(@, a1.track100m, TackPort)]
             r1 == [r EXCEPT
                      !.totalDistance = @ + distance(At(pts, i - 1), At(pts, i)),
                      !.speed2s = Better(@, a1.track2s),
                      !.speed15m = Better(@, a1.track15m),
                      !.speed1h = Better(@, a1.track1h),
                      !.speed100m = Better(@, a1.track100m),
                      !.speed1NM = Better(@, a1.track1NM),
                      !.wDirStats = w1]
         IN  MainLoop(pts, i + 1, [a1 EXCEPT !.res = r1], st)

\* The two switch statements on turnType and the one on the tack side of
\* a valid turnSubtrack.
TurnUpdate(r, turnSubtrack, turnType, side) ==
    [r EXCEPT
       !.alpha500m = IF turnType = TurnUnknown /\ Lt(@.speed, turnSubtrack.speed)
                     THEN turnSubtrack ELSE @,
       !.unknTurnsCount = IF turnType = TurnUnknown /\ Lt(r.alpha500m.speed, turnSubtrack.speed)
                          THEN @ + 1 ELSE @,
       !.wDirStats.alpha500m =
           IF turnType = TurnJibe /\ Lt(@.speed, turnSubtrack.speed) THEN turnSubtrack ELSE @,
       !.wDirStats.delta500m =
           IF turnType = TurnTack /\ Lt(@.speed, turnSubtrack.speed) THEN turnSubtrack ELSE @,
       !.wDirStats.starboardAlpha500m =
           IF side = TackStarboard /\ turnType = TurnJibe /\ Lt(@.speed, turnSubtrack.speed)
           THEN turnSubtrack ELSE @,
       !.wDirStats.starboardDelta500m =
           IF side = TackStarboard /\ turnType = TurnTack /\ Lt(@.speed, turnSubtrack.speed)
           THEN turnSubtrack ELSE @,
       !.wDirStats.portAlpha500m =
           IF side = TackPort /\ turnType = TurnJibe /\ Lt(@.speed, turnSubtrack.speed)
           THEN turnSubtrack ELSE @,
       !.wDirStats.portDelta500m =
           IF side = TackPort /\ turnType = TurnTack /\ Lt(@.speed, turnSubtrack.speed)
           THEN turnSubtrack ELSE @,
       !.wDirStats.jibesCount = IF turnType = TurnJibe THEN @ + 1 ELSE @,
       !.wDirStats.tacksCount = IF turnType = TurnTack THEN @ + 1 ELSE @]

\* if turnSubtrack.valid { turnType := detectTurnType(turnSubtrack.ps, windDir) ... }
TurnClassify(r, turnSubtrack, wd) ==
    IF ~turnSubtrack.valid THEN r
    ELSE TurnUpdate(r, turnSubtrack, detectTurnType(turnSubtrack.ps, wd),
                    TrackTackSide(turnSubtrack))

\* The body of the loop over turnTracks.
TurnStep(r, turnTrack, wd) == TurnClassify(r, findMaxTurnSubtrack(turnTrack), wd)

RECURSIVE TurnLoop(_, _, _, _)
TurnLoop(r, turnTracks, ttIdx, wd) ==
    IF ttIdx >= Len(turnTracks) THEN r
    ELSE TurnLoop(TurnStep(r, At(turnTracks, ttIdx), wd), turnTracks, ttIdx + 1, wd)

\* if track.valid [&& track.TackSide() == side] && best.speed < track.speed
\* side is "any" or the tack side the window must start on.
Better10s(best, t, side) ==
    IF side = "any" THEN Better(best, t) ELSE BetterOnSide(best, t, side)

\* One scan of the whole sequence for the fastest valid 10 s window of
\* unused points: ps[0] is fed before the loop, the best is updated from
\* ps[1] on.
RECURSIVE Scan10s(_, _, _, _, _)
RECURSIVE Scan10sNext(_, _, _, _, _)
Scan10s(pts, i, t, best, side) ==
    IF i >= Len(pts) THEN best
    ELSE IF i = 0
         THEN Scan10s(pts, 1, addPointMinDurationUnused10s(t, At(pts, 0), 10, TRUE), best, side)
         ELSE Scan10sNext(pts, i, addPointMinDurationUnused10s(t, At(pts, i), 10, TRUE),
                          best, side)

Scan10sNext(pts, i, t, best, side) == Scan10s(pts, i + 1, t, Better10s(best, t, side), side)

\* for i := 0; i < len(track.ps); i++ { ps[track.ps[i].globalIdx].usedFor10s = true }
RECURSIVE MarkUsed(_, _, _)
MarkUsed(pts, trackPs, i) ==
    IF i >= Len(trackPs) THEN [panic |-> FALSE, ps |-> pts]
    ELSE IF At(trackPs, i).globalIdx < 0 \/ At(trackPs, i).globalIdx >= Len(pts)
         THEN [panic |-> TRUE, ps |-> pts]
         ELSE MarkUsed([pts EXCEPT ![At(trackPs, i).globalIdx + 1].usedFor10s = TRUE],
                       trackPs, i + 1)

\* Five picks: scan, store the best window, mark its points as used.
RECURSIVE Pick5x10s(_, _, _, _)
RECURSIVE PickStore(_, _, _, _, _)
RECURSIVE PickMark(_, _, _, _)
Pick5x10s(pts, idx, picks, side) ==
    IF idx >= 5 THEN [panic |-> FALSE, ps |-> pts, picks |-> picks]
    ELSE PickStore(idx, picks, side, Scan10s(pts, 0, EmptyTrack, EmptyTrack, side), pts)

PickStore(idx, picks, side, best, pts) ==
    PickMark(idx, [picks EXCEPT ![idx + 1] = best], side, MarkUsed(pts, best.ps, 0))

PickMark(idx, picks, side, m) ==
    IF m.panic THEN [panic |-> TRUE, ps |-> m.ps, picks |-> picks]
    ELSE Pick5x10s(m.ps, idx + 1, picks, side)

ResetUsed(pts) == [i \in 1..Len(pts) |-> [pts[i] EXCEPT !.usedFor10s = FALSE]]

\* The port picks, stored after the starboard picks sb.
StatsPort(r, pt) ==
    [panic |-> pt.panic, ps |-> pt.ps,
     stats |-> [r EXCEPT !.wDirStats.portSpeed5x10s = pt.picks]]

\* The starboard picks sb, stored after the overall picks.
StatsStarboard(r, sb) ==
    IF sb.panic
    THEN [panic |-> TRUE, ps |-> sb.ps,
          stats |-> [r EXCEPT !.wDirStats.starboardSpeed5x10s = sb.picks]]
    ELSE StatsPort([r EXCEPT !.wDirStats.starboardSpeed5x10s = sb.picks],
                   Pick5x10s(ResetUsed(sb.ps), 0, FiveEmptyTracks, TackPort))

\* The overall picks all, then the picks of each tack side when the wind
\* direction is known.
StatsOverall(r, all) ==
    IF all.panic \/ ~r.wDirKnown
    THEN [panic |-> all.panic, ps |-> all.ps, stats |-> [r EXCEPT !.speed5x10s = all.picks]]
    ELSE StatsStarboard([r EXCEPT !.speed5x10s = all.picks],
                        Pick5x10s(ResetUsed(all.ps), 0, FiveEmptyTracks, TackStarboard))

\* The 5x10 s block.
Stats5x10s(pts, r) == StatsOverall(r, Pick5x10s(pts, 0, FiveEmptyTracks, "any"))

\* The trackers after ps[0] has been fed to them, with the result res.
InitialTrackers(pts, st, r0) ==
    FeedTrackers([track2s |-> EmptyTrack, track15m |-> EmptyTrack, track1h |-> EmptyTrack,
                  track100m |-> EmptyTrack, track1NM |-> EmptyTrack,
                  res |-> [r0 EXCEPT !.totalDuration = Rat(pts[Len(pts)].ts - pts[1].ts, 3600)]],
                 At(pts, 0), st)

\* The 5x10 s switch, on the result r of the turn switch.
CalculateTopK(pts, st, r) ==
    IF st \in {StatAll, Stat10sAvg, Stat10s1, Stat10s2, Stat10s3, Stat10s4, Stat10s5}
    THEN Stats5x10s(pts, r)
    ELSE [panic |-> FALSE, ps |-> pts, stats |-> r]

\* The turn switch, on the result r of the main loop.
CalculateTurns(pts, st, wd, r) ==
    CalculateTopK(pts, st,
                  IF st \in {StatAll, StatAlpha}
                  THEN TurnLoop(r, collectTurnTracks(pts), 0, wd)
                  ELSE r)

\* if len(ps) > 1 { ... }, on the points with headings and tack sides.
CalculateBody(pts, st, wd, r0) ==
    IF Len(pts) > 1
    THEN CalculateTurns(pts, st, wd, MainLoop(pts, 1, InitialTrackers(pts, st, r0), st).res)
    ELSE [panic |-> FALSE, ps |-> pts, stats |-> r0]

\* The tack sides and the initial result, for the resolved wind direction.
CalculateResolved(ps1, st, windDirKnown, wd) ==
    CalculateBody(WithTackSides(ps1, wd), st, wd, InitialStats(windDirKnown, wd))

\* windDirKnown := windDir >= 0; if !windDirKnown { windDir = autoDetectWindDir(ps, TurnJibe) }
CalculateWind(ps1, st, wd1) ==
    CalculateResolved(ps1, st, wd1 >= 0,
                      IF wd1 >= 0 THEN wd1 ELSE autoDetectWindDir(ps1, TurnJibe))

\* if preferedTurn != TurnUnknown { windDir = autoDetectWindDir(ps, preferedTurn) }
CalculateHeadings(ps1, st, preferedTurn, windDirIn) ==
    CalculateWind(ps1, st,
                  IF preferedTurn # TurnUnknown THEN autoDetectWindDir(ps1, preferedTurn)
                  ELSE windDirIn)

\* CalculateStats(ps, statType, UnitsMs, preferedTurn, windDir, false): the
\* aggregate, the point slice as the call leaves it, and whether it panicked.
CalculateStats(ps0, st, preferedTurn, windDirIn) ==
    CalculateHeadings(WithHeadings(ps0), st, preferedTurn, windDirIn)

-----------------------------------------------------------------------------
(* Inputs: raw point sequences as ReadPointsSbn returns them.              *)

RECURSIVE RawFrom(_, _, _)
RawFrom(moves, i, acc) ==
    IF i > Len(moves) THEN acc
    ELSE LET last == acc[Len(acc)]
         IN  RawFrom(moves, i + 1,
                     Append(acc, Point(last.ts + moves[i][1], last.x + moves[i][2], Len(acc))))

\* All raw sequences of at most maxLen points whose consecutive points are
\* dt seconds and step metres apart, dt in dts, step in steps.
RawInputs(maxLen, dts, steps) ==
    {<<>>} \cup
    UNION { { RawFrom(m, 1, <<Point(0, 0, 0)>>) : m \in [1..k -> dts \X steps] }
            : k \in 0..(maxLen - 1) }

NoStats == [none |-> TRUE]

-----------------------------------------------------------------------------
(* Specification of the cleanup pipeline: read, CleanUp, CleanUp again.    *)

MaxRaw == 6

InitClean ==
    /\ pc = "read"
    /\ raw \in RawInputs(MaxRaw, {0, 1, 2}, {1, 5})
    /\ deltaSpeedMax \in {3}
    /\ ps = <<>>
    /\ ps2 = <<>>
    /\ statType = StatAll
    /\ windDir = Deg(-1)
    /\ autoWindTurn = TurnUnknown
    /\ stats = NoStats
    /\ track = EmptyTrack
    /\ target = 0
    /\ fed = <<>>

\* printStatsForFile: ps := stats.CleanUp(points, cleanupDeltaSpeed, speedUnits)
DoCleanUp ==
    /\ pc = "read"
    /\ LET r == CleanUp(raw, deltaSpeedMax) IN
       IF r.panic
       THEN pc' = Panicked /\ ps' = ps
       ELSE pc' = "cleaned" /\ ps' = r.ps
    /\ UNCHANGED <<raw, deltaSpeedMax, ps2, statType, windDir, autoWindTurn, stats,
                   track, target, fed>>

\* CleanUp applied to its own output.
DoCleanUpAgain ==
    /\ pc = "cleaned"
    /\ LET r == CleanUp(ps, deltaSpeedMax) IN
       IF r.panic
       THEN pc' = Panicked /\ ps2' = ps2
       ELSE pc' = "cleaned2" /\ ps2' = r.ps
    /\ UNCHANGED <<raw, deltaSpeedMax, ps, statType, windDir, autoWindTurn, stats,
                   track, target, fed>>

NextClean == DoCleanUp \/ DoCleanUpAgain

SpecClean == InitClean /\ [][NextClean]_vars

-----------------------------------------------------------------------------
(* Claims about CleanUp.                                                   *)

\* C3: CleanUp is idempotent: applying CleanUp to the output of CleanUp
\* returns the same sequence of points as the first application.
C3_CleanUpIdempotent == pc = "cleaned2" => ps2 = ps

\* C4: each point at position i of the sequence returned by CleanUp has
\* global_idx equal to i, positions 0 and 1 included.
C4_GlobalIdxIsPosition ==
    pc = "cleaned" => \A i \in 0..(Len(ps) - 1) : At(ps, i).globalIdx = i

\* C5: for raw sequences with non-decreasing timestamps, the timestamps of
\* the sequence returned by CleanUp are strictly increasing.
C5_TimestampsStrictlyIncrease ==
    pc = "cleaned" => \A i \in 0..(Len(ps) - 2) : At(ps, i).ts < At(ps, i + 1).ts

-----------------------------------------------------------------------------
(* Specification of the window engine: one Track fed point by point, as    *)
(* the loops of CalculateStats feed track2s (2 s), track5x10s (10 s,       *)
(* unused points only) and track100m (100 m).                              *)

MaxFeed == 5

\* The point fed next: dt seconds and step metres after the last one fed.
NextFed(dt, step, used) ==
    LET p == IF Len(fed) = 0 THEN Point(0, 0, 0)
             ELSE Point(fed[Len(fed)].ts + dt, fed[Len(fed)].x + step, Len(fed))
    IN  [p EXCEPT !.usedFor10s = used]

InitWin ==
    /\ \/ pc = "minDuration" /\ target = 2
       \/ pc = "minDurationUnused10s" /\ target = 10
       \/ pc = "minDistance" /\ target = 100
    /\ raw = <<>>
    /\ deltaSpeedMax = 0
    /\ ps = <<>>
    /\ ps2 = <<>>
    /\ statType = StatAll
    /\ windDir = Deg(-1)
    /\ autoWindTurn = TurnUnknown
    /\ stats = NoStats
    /\ track = EmptyTrack
    /\ fed = <<>>

\* track2s = track2s.addPointMinDuration(ps[i], 2)
AppendMinDuration ==
    /\ pc = "minDuration"
    /\ Len(fed) < MaxFeed
    /\ \E dt \in {1, 2, 3}, step \in {0, 50} :
         LET p == NextFed(dt, step, FALSE) IN
         /\ track' = addPointMinDuration(track, p, target)
         /\ fed' = Append(fed, p)
    /\ UNCHANGED <<pc, raw, deltaSpeedMax, ps, ps2, statType, windDir, autoWindTurn,
                   stats, target>>

\* track5x10s = track5x10s.addPointMinDurationUnused10s(ps[i], 10, true)
AppendMinDurationUnused10s ==
    /\ pc = "minDurationUnused10s"
    /\ Len(fed) < MaxFeed
    /\ \E dt \in {1, 5, 10}, used \in BOOLEAN :
         LET p == NextFed(dt, 50, used) IN
         /\ track' = addPointMinDurationUnused10s(track, p, target, TRUE)
         /\ fed' = Append(fed, p)
    /\ UNCHANGED <<pc, raw, deltaSpeedMax, ps, ps2, statType, windDir, autoWindTurn,
                   stats, target>>

\* track100m = track100m.addPointMinDistance(ps[i], 100)
AppendMinDistance ==
    /\ pc = "minDistance"
    /\ Len(fed) < MaxFeed
    /\ \E dt \in {1, 2}, step \in {0, 50, 100} :
         LET p == NextFed(dt, step, FALSE) IN
         /\ track' = addPointMinDistance(track, p, target)
         /\ fed' = Append(fed, p)
    /\ UNCHANGED <<pc, raw, deltaSpeedMax, ps, ps2, statType, windDir, autoWindTurn,
                   stats, target>>

NextWin == AppendMinDuration \/ AppendMinDurationUnused10s \/ AppendMinDistance

SpecWin == InitWin /\ [][NextWin]_vars

\* The window is a suffix of the points fed so far.
IsSuffix(w, s) == Len(w) <= Len(s) /\ w = SubSeq(s, Len(s) - Len(w) + 1, Len(s))

\* C7: after every append by addPointMinDuration, addPointMinDurationUnused10s
\* or addPointMinDistance, the track's distance is the sum of the segment
\* distances of its point list and its duration is the last timestamp minus
\* the first timestamp of that list.
C7_RunningSumsExact ==
    pc \in {"minDuration", "minDurationUnused10s", "minDistance"} =>
        /\ track.distance = SumDistance(track.ps)
        /\ track.duration = (IF Len(track.ps) = 0 THEN 0
                             ELSE track.ps[Len(track.ps)].ts - track.ps[1].ts)

\* C7 witness: a window that has been trimmed from the left and still spans
\* several segments of non-zero length.
C7_Witness ==
    /\ pc \in {"minDuration", "minDistance"}
    /\ Len(track.ps) > 2
    /\ Len(track.ps) < Len(fed)
    /\ IsSuffix(track.ps, fed)
    /\ track.distance > 0

\* The span the window is gated on: seconds or metres.
Span(t) == IF pc = "minDistance" THEN t.distance ELSE t.duration
FirstSegment(t) ==
    IF pc = "minDistance" THEN distance(At(t.ps, 0), At(t.ps, 1))
    ELSE At(t.ps, 1).ts - At(t.ps, 0).ts

\* C8: after each append the window is the shortest suffix whose span meets
\* the target: whenever its span is at least the target and it holds more
\* than two points, removing its leftmost point brings the span strictly
\* below the target.
C8_ShortestSuffix ==
    pc \in {"minDuration", "minDurationUnused10s", "minDistance"} =>
        /\ IsSuffix(track.ps, fed)
        /\ (Span(track) >= target /\ Len(track.ps) > 2) =>
               Span(track) - FirstSegment(track) < target

-----------------------------------------------------------------------------
(* Specifications of printStatsForFile: read, CleanUp, CalculateStats.     *)

\* The call returns the aggregate r.stats, or panics.
StatsReturned(r) ==
    IF r.panic
    THEN pc' = Panicked /\ ps' = r.ps /\ stats' = stats
    ELSE pc' = "done" /\ ps' = r.ps /\ stats' = r.stats

\* printStatsForFile:
\*   s := stats.CalculateStats(ps, statType, speedUnits, autoWindTurn, windDir, debug)
\* The call works on the slice CleanUp returned, so ps keeps the headings,
\* tack sides and used flags the call wrote.
DoCalculateStats ==
    /\ pc = "cleaned"
    /\ StatsReturned(CalculateStats(ps, statType, autoWindTurn, windDir))
    /\ UNCHANGED <<raw, deltaSpeedMax, ps2, statType, windDir, autoWindTurn,
                   track, target, fed>>

NextStats == DoCleanUp \/ DoCalculateStats

\* Recordings with duplicated samples and signal gaps, analysed for the
\* 10 s statistics.
MaxRawTopK == 9

InitTopK ==
    /\ pc = "read"
    /\ raw \in RawInputs(MaxRawTopK, {0, 1, 10}, {1})
    /\ deltaSpeedMax \in {3}
    /\ ps = <<>>
    /\ ps2 = <<>>
    /\ statType \in {StatAll, Stat10sAvg}
    /\ windDir \in {Deg(-1), Deg(90)}
    /\ autoWindTurn = TurnUnknown
    /\ stats = NoStats
    /\ track = EmptyTrack
    /\ target = 0
    /\ fed = <<>>

SpecTopK == InitTopK /\ [][NextStats]_vars

\* One-sample-per-second recordings that sail up and down the meridian,
\* analysed for turns.
MaxRawTurn == 6

InitTurn ==
    /\ pc = "read"
    /\ raw \in RawInputs(MaxRawTurn, {1}, {-300, -30, 0, 30, 300})
    /\ deltaSpeedMax \in {10000}
    /\ ps = <<>>
    /\ ps2 = <<>>
    /\ statType \in {StatAll, StatAlpha}
    /\ windDir \in {Deg(-1), Deg(45)}
    /\ autoWindTurn = TurnUnknown
    /\ stats = NoStats
    /\ track = EmptyTrack
    /\ target = 0
    /\ fed = <<>>

SpecTurn == InitTurn /\ [][NextStats]_vars

-----------------------------------------------------------------------------
(* Claims about the result of CalculateStats.                              *)

GlobalIdxs(t) == { t.ps[i].globalIdx : i \in 1..Len(t.ps) }

\* C1: the five 10 s tracks of the result are pairwise disjoint: no point,
\* identified by global_idx, belongs to two of the five tracks.
C1_TopFiveDisjoint ==
    pc = "done" =>
        \A j \in 1..5 : \A k \in 1..5 :
            j < k => GlobalIdxs(stats.speed5x10s[j]) \cap GlobalIdxs(stats.speed5x10s[k]) = {}

\* C6: CalculateStats has no failure mode: it returns an aggregate without
\* a run-time failure for every sequence CleanUp can return, and for fewer
\* than two points the aggregate has zero total distance, zero total
\* duration and five empty 10 s slots of speed 0.
C6_NoFailureMode ==
    [][pc = "cleaned" =>
          /\ pc' = "done"
          /\ Len(ps) < 2 =>
                /\ stats'.totalDistance = 0
                /\ stats'.totalDuration = Zero
                /\ \A k \in 1..5 : /\ stats'.speed5x10s[k].ps = <<>>
                                   /\ stats'.speed5x10s[k].speed = Zero]_vars

\* a >= b on speeds
Geq(a, b) == ~Lt(a, b)

\* C9: the five 10 s tracks are ordered by non-increasing speed: the speed
\* of slot k is greater than or equal to the speed of slot k+1, k in 1..4.
C9_TopFiveOrdered ==
    pc = "done" =>
        \A k \in 1..4 : Geq(stats.speed5x10s[k].speed, stats.speed5x10s[k + 1].speed)

\* C9 witness: a result whose first two slots hold windows of different
\* speed and whose third slot is empty.
C9_Witness ==
    /\ pc = "done"
    /\ stats.speed5x10s[1].valid
    /\ stats.speed5x10s[2].valid
    /\ Lt(stats.speed5x10s[2].speed, stats.speed5x10s[1].speed)
    /\ Len(stats.speed5x10s[3].ps) = 0

\* The Alpha 500 / Delta 500 tracks stored in a result, overall and per side.
TurnResults(r) ==
    { t \in { r.alpha500m, r.wDirStats.alpha500m, r.wDirStats.delta500m,
              r.wDirStats.starboardAlpha500m, r.wDirStats.starboardDelta500m,
              r.wDirStats.portAlpha500m, r.wDirStats.portDelta500m } :
        Len(t.ps) > 0 }

\* C2: every Alpha 500 / Delta 500 track stored in the result has a path
\* distance between 100 m and 500 m.
C2_TurnDistanceInRange ==
    pc = "done" =>
        \A t \in TurnResults(stats) : 100 <= t.distance /\ t.distance <= 500

\* C10: for every Alpha 500 / Delta 500 track stored in the result, the
\* straight-line distance between its first and its last point is at most 50 m.
C10_TurnGateClosed ==
    pc = "done" =>
        \A t \in TurnResults(stats) : distance(At(t.ps, 0), At(t.ps, Len(t.ps) - 1)) <= 50

\* C10 witness: a stored turn whose ends are apart, but within the gate.
C10_Witness ==
    /\ pc = "done"
    /\ \E t \in TurnResults(stats) :
          /\ distance(At(t.ps, 0), At(t.ps, Len(t.ps) - 1)) > 0
          /\ distance(At(t.ps, 0), At(t.ps, Len(t.ps) - 1)) <= 50
          /\ Len(t.ps) > 3

\* C11: for every Alpha 500 / Delta 500 track stored in the result, the tack
\* sides of its first and of its last point are both known and differ.
C11_TurnEndsOnOppositeTacks ==
    pc = "done" =>
        \A t \in TurnResults(stats) :
            /\ At(t.ps, 0).tackSide # TackUnknown
            /\ At(t.ps, Len(t.ps) - 1).tackSide # TackUnknown
            /\ At(t.ps, 0).tackSide # At(t.ps, Len(t.ps) - 1).tackSide

\* C11 witness: a stored turn that holds a point of unknown tack side
\* between its two ends.
C11_Witness ==
    /\ pc = "done"
    /\ \E t \in TurnResults(stats) :
          \E i \in 1..Len(t.ps) : t.ps[i].tackSide = TackUnknown

-----------------------------------------------------------------------------
(* The report.                                                             *)

\* TxtStats, the line "Alpha 500:": the track whose TxtLine is printed.
TxtStatsAlpha500(s) == s.alpha500m

\* TxtSingleStat(StatAlpha): the track whose TxtLine is returned.
TxtSingleStatAlpha(s) == s.alpha500m

\* TxtStats, the line "Delta 500:", printed when the wind direction is known.
TxtStatsDelta500(s) == s.wDirStats.delta500m

-----------------------------------------------------------------------------
(* Claims about the classification of turns.                               *)

\* The turn results of the analysed points: for every turn track with a
\* valid best sub-span, that sub-span and its class.
ClassifiedTurns ==
    LET tts == collectTurnTracks(ps)
        subOf(k) == findMaxTurnSubtrack(tts[k])
    IN  { [k |-> k, sub |-> subOf(k),
           type |-> detectTurnType(subOf(k).ps, stats.wDirStats.windDirection)] :
          k \in { j \in 1..Len(tts) : subOf(j).valid } }

TurnsOfType(type) == { c \in ClassifiedTurns : c.type = type }

\* t is the fastest sub-span of the turn results in cs, or the empty track
\* when there is none.
IsFastestOf(t, cs) ==
    IF cs = {} THEN Len(t.ps) = 0
    ELSE /\ \E c \in cs : c.sub = t
         /\ \A c \in cs : Geq(t.speed, c.sub.speed)

\* C12: the Alpha 500 track of the report (the "Alpha 500" line and the
\* alpha single statistic) is the fastest turn result classified as jibe
\* when the wind direction is known and the fastest one classified as
\* unknown when it is not; turn results classified as tack contribute only
\* to the Delta 500 track.
C12_Alpha500IsFastestJibe ==
    (pc = "done" /\ statType \in {StatAll, StatAlpha}) =>
        /\ IsFastestOf(TxtStatsAlpha500(stats),
                       TurnsOfType(IF stats.wDirKnown THEN TurnJibe ELSE TurnUnknown))
        /\ TxtSingleStatAlpha(stats) = TxtStatsAlpha500(stats)
        /\ IsFastestOf(TxtStatsDelta500(stats), TurnsOfType(TurnTack))

\* Recordings long enough to hold two turns one after the other, sailed
\* across a wind that is given on the command line.
MaxRawCount == 7

InitTurnCount ==
    /\ pc = "read"
    /\ raw \in RawInputs(MaxRawCount, {1}, {-30, 0, 30})
    /\ deltaSpeedMax \in {10000}
    /\ ps = <<>>
    /\ ps2 = <<>>
    /\ statType \in {StatAll}
    /\ windDir \in {Deg(45), Deg(90)}
    /\ autoWindTurn = TurnUnknown
    /\ stats = NoStats
    /\ track = EmptyTrack
    /\ target = 0
    /\ fed = <<>>

SpecTurnCount == InitTurnCount /\ [][NextStats]_vars

\* C13: after CalculateStats the jibe, tack and unknown-turn counters equal
\* the numbers of turn results classified as jibe, tack and unknown: every
\* classified turn result is counted once, whether or not it beats the
\* current best speed.
C13_TurnCountersMatch ==
    (pc = "done" /\ statType \in {StatAll, StatAlpha}) =>
        /\ stats.wDirStats.jibesCount = Cardinality(TurnsOfType(TurnJibe))
        /\ stats.wDirStats.tacksCount = Cardinality(TurnsOfType(TurnTack))
        /\ stats.unknTurnsCount = Cardinality(TurnsOfType(TurnUnknown))

-----------------------------------------------------------------------------
(* Claims about the two stages of CleanUp.                                 *)

\* Stage A has run on raw: CleanUp was called with more than one point.
StageARan == pc # "read" /\ Len(raw) > 1

\* The raw point at position i is in the Stage A output (raw points carry
\* their position in globalIdx, which Stage A leaves alone).
InStageA(i) ==
    \E k \in 1..Len(StageA(raw)) : StageA(raw)[k].globalIdx = At(raw, i).globalIdx

\* C14: Stage A: for every pair of consecutive raw points that share a
\* timestamp, at any position including the first two points, neither point
\* of the pair is in the output.
C14_DuplicatePairsDropped ==
    StageARan =>
        \A i \in 0..(Len(raw) - 2) :
            At(raw, i).ts = At(raw, i + 1).ts => ~InStageA(i) /\ ~InStageA(i + 1)

\* C15: Stage A: for every pair of consecutive raw points more than 1 s
\* apart, at any position including the first two points, the point before
\* the gap and the first three points after it (or all the remaining points
\* when fewer than three follow) are not in the output.
C15_GapNeighboursDropped ==
    StageARan =>
        \A i \in 0..(Len(raw) - 2) :
            At(raw, i + 1).ts - At(raw, i).ts > 1 =>
                \A j \in i..(i + 3) : j <= Len(raw) - 1 => ~InStageA(j)

\* The candidates of Stage B: the Stage A points that have two points before
\* them and one after them.
Candidates == 2..(Len(StageA(raw)) - 2)

\* The Stage A point at position i is in the output of CleanUp (from
\* position 1 on, Stage A timestamps are strictly increasing).
InOutput(i) == \E k \in 1..Len(ps) : ps[k].ts = At(StageA(raw), i).ts

\* The number of output points when candidate i is examined: the two seeds
\* and the candidates accepted before it.
AcceptedBefore(i) == 2 + Cardinality({ j \in Candidates : j < i /\ InOutput(j) })

\* d0 < 0 or (d0 - d1) < deltaSpeedMax, with d0 = spdCur - spdPrev and
\* d1 = spdNext - spdCur; spdCur and spdNext are finite, spdPrev may be
\* +Inf (d0 = -Inf) or NaN (no comparison holds).
AcceptRule(spdPrev, spdCur, spdNext) ==
    \/ Lt(spdCur, spdPrev)
    \/ /\ spdPrev.d # 0
       /\ (2 * spdCur.n * spdPrev.d * spdNext.d
           - spdPrev.n * spdCur.d * spdNext.d
           - spdNext.n * spdCur.d * spdPrev.d)
          < deltaSpeedMax * spdCur.d * spdPrev.d * spdNext.d

\* Candidate i passes the rule against the output built so far.
RuleAccepts(i) ==
    AcceptRule(speed(ps[AcceptedBefore(i) - 1], ps[AcceptedBefore(i)]),
               speed(ps[AcceptedBefore(i)], At(StageA(raw), i)),
               speed(At(StageA(raw), i), At(StageA(raw), i + 1)))

\* C17: Stage B seeds its output with the first two Stage A points and
\* accepts each later candidate iff d0 < 0 or (d0 - d1) < deltaSpeedMax,
\* spdPrev being the speed of the last accepted segment; a rejected
\* candidate is not in the output.
C17_StageBAcceptance ==
    (pc = "cleaned" /\ Len(raw) > 1) =>
        /\ Len(ps) >= 2
        /\ ps[1] = At(StageA(raw), 0)
        /\ ps[2] = At(StageA(raw), 1)
        /\ \A i \in Candidates : InOutput(i) <=> RuleAccepts(i)

\* C17 witness: a cleanup that rejects one candidate and accepts a later one.
C17_Witness ==
    /\ pc = "cleaned"
    /\ Len(raw) > 1
    /\ \E i, j \in Candidates : i < j /\ ~InOutput(i) /\ InOutput(j)

\* C18: CleanUp returns a sequence of fewer than two points unchanged: the
\* empty sequence for an empty input, the one point for a one-point input.
C18_ShortInputUnchanged ==
    (pc = "cleaned" /\ Len(raw) < 2) => ps = raw

-----------------------------------------------------------------------------
(* The recording of the comment in CleanUp: seconds 43 .. 54 with 47 and   *)
(* 49 missing, the rider moving 1 m or 5 m between two samples.            *)

ExampleSeconds == <<43, 44, 45, 46, 48, 50, 51, 52, 53, 54>>

RECURSIVE ExampleFrom(_, _, _)
ExampleFrom(steps, i, acc) ==
    IF i > Len(ExampleSeconds) THEN acc
    ELSE ExampleFrom(steps, i + 1,
                     Append(acc, Point(ExampleSeconds[i], acc[Len(acc)].x + steps[i - 1],
                                       Len(acc))))

InitExample ==
    /\ pc = "read"
    /\ raw \in { ExampleFrom(s, 2, <<Point(ExampleSeconds[1], 0, 0)>>) :
                 s \in [1..(Len(ExampleSeconds) - 1) -> {1, 5}] }
    /\ deltaSpeedMax \in {3}
    /\ ps = <<>>
    /\ ps2 = <<>>
    /\ statType = StatAll
    /\ windDir = Deg(-1)
    /\ autoWindTurn = TurnUnknown
    /\ stats = NoStats
    /\ track = EmptyTrack
    /\ target = 0
    /\ fed = <<>>

SpecExample == InitExample /\ [][NextClean]_vars

\* The seconds of the points of a sequence.
SecondsOf(points) == [k \in 1..Len(points) |-> points[k].ts]

\* C16: Stage A applied to the 1 Hz recording with seconds 43,44,45,46,48,
\* 50,51,52,53,54 keeps exactly the points 43,44,45,48,53,54.
C16_ExampleKeeps48 ==
    StageARan => SecondsOf(StageA(raw)) = <<43, 44, 45, 48, 53, 54>>

-----------------------------------------------------------------------------
(* The command lines main accepts: -wd and -awd are not given together.    *)

MaxRawWind == 6

InitWind ==
    /\ pc = "read"
    /\ raw \in RawInputs(MaxRawWind, {1}, {-30, 0, 30})
    /\ deltaSpeedMax \in {10000}
    /\ ps = <<>>
    /\ ps2 = <<>>
    /\ statType \in {StatAll}
    /\ windDir \in {Deg(-1), Deg(45)}
    /\ autoWindTurn \in {TurnUnknown, TurnJibe, TurnTack}
    /\ ~(autoWindTurn # TurnUnknown /\ windDir # Deg(-1))
    /\ stats = NoStats
    /\ track = EmptyTrack
    /\ target = 0
    /\ fed = <<>>

SpecWind == InitWind /\ [][NextStats]_vars

\* The tack sides CalculateStats leaves on the points are those of wd.
TackSidesFrom(wd) ==
    \A i \in 2..Len(ps) : ps[i].tackSide = detectTackSideFromHeading(ps[i].heading, wd)

\* C19: CalculateStats resolves the wind: an explicit direction is used as
\* given and wind_known is true; without one the direction is detected with
\* the preferred-maneuver hint and wind_known is true exactly when the
\* detection returns a direction; when it fails the tack sides come from
\* the jibe-assumption detection and wind_known stays false.
C19_WindResolution ==
    pc = "done" =>
        IF windDir >= 0
        THEN /\ stats.wDirKnown
             /\ stats.wDirStats.windDirection = windDir
        ELSE /\ stats.wDirKnown <=> autoDetectWindDir(ps, autoWindTurn) >= 0
             /\ stats.wDirKnown =>
                    stats.wDirStats.windDirection = autoDetectWindDir(ps, autoWindTurn)
             /\ ~stats.wDirKnown => TackSidesFrom(autoDetectWindDir(ps, TurnJibe))

-----------------------------------------------------------------------------
(* The wind detector on a recording and on the same recording turned by    *)
(* an angle about its first point.  On one meridian the recording can be   *)
(* turned by 0 or by 180 degrees: a turn by 180 degrees mirrors every      *)
(* position, so that CalculateStats computes h + 180 (mod 360) where it    *)
(* computed the heading h >= 0 and leaves the unset headings (the first    *)
(* point, the samples that did not move) unset.                            *)

MaxRawRotate == 6

\* The cleaned points of the recording turned by angle about its first point.
RotateRecording(pts, angle) ==
    [i \in 1..Len(pts) |->
        [pts[i] EXCEPT !.x = IF angle = Deg(180) THEN 2 * pts[1].x - pts[i].x ELSE pts[i].x]]

InitRotate ==
    /\ pc = "recorded"
    /\ raw = <<>>
    /\ deltaSpeedMax = 0
    /\ ps \in RawInputs(MaxRawRotate, {1}, {-30, 0, 30})
    /\ ps2 = <<>>
    /\ statType = StatAll
    /\ windDir = Deg(-1)
    /\ autoWindTurn \in {TurnUnknown, TurnJibe, TurnTack}
    /\ stats = NoStats
    /\ track = EmptyTrack
    /\ target \in {Deg(0), Deg(180)}
    /\ fed = <<>>

\* The recording is sailed a second time, turned by target.
DoRotate ==
    /\ pc = "recorded"
    /\ pc' = "rotated"
    /\ ps2' = RotateRecording(ps, target)
    /\ UNCHANGED <<raw, deltaSpeedMax, ps, statType, windDir, autoWindTurn, stats,
                   track, target, fed>>

\* CalculateStats on both: the headings, then autoDetectWindDir.
DoDetect ==
    /\ pc = "rotated"
    /\ pc' = "detected"
    /\ ps' = WithHeadings(ps)
    /\ ps2' = WithHeadings(ps2)
    /\ stats' = [w |-> autoDetectWindDir(WithHeadings(ps), autoWindTurn),
                 wRotated |-> autoDetectWindDir(WithHeadings(ps2), autoWindTurn)]
    /\ UNCHANGED <<raw, deltaSpeedMax, statType, windDir, autoWindTurn,
                   track, target, fed>>

NextRotate == DoRotate \/ DoDetect

SpecRotate == InitRotate /\ [][NextRotate]_vars

\* C20: autoDetectWindDir is rotation-equivariant: rotating all the input
\* headings by an angle D turns a detected direction w >= 0 into
\* (w + D) mod 360 and leaves an indeterminate result (-1) indeterminate.
C20_RotationEquivariant ==
    pc = "detected" =>
        IF stats.w >= 0
        THEN stats.wRotated = (stats.w + target) % Deg(360)
        ELSE stats.wRotated = Deg(-1)

-----------------------------------------------------------------------------
(* The side classifier on one heading and one wind direction, and on the   *)
(* same two angles with 360 degrees added.  target holds the heading.      *)

\* The headings 0, 0.5, .. 359.5 degrees.
HeadingSteps == 720

InitSide ==
    /\ pc = "angles"
    /\ raw = <<>>
    /\ deltaSpeedMax = 0
    /\ ps = <<>>
    /\ ps2 = <<>>
    /\ statType = StatAll
    /\ windDir \in {Deg(-1), Deg(0), Deg(45), Deg(90), Deg(200), Deg(360)}
    /\ autoWindTurn = TurnUnknown
    /\ stats = NoStats
    /\ track = EmptyTrack
    /\ target \in {Deg(-1)} \cup 0..(HeadingSteps - 1)
    /\ fed = <<>>

DoDetectTackSide ==
    /\ pc = "angles"
    /\ pc' = "sided"
    /\ stats' = [side |-> detectTackSideFromHeading(target, windDir),
                 sideTurned |-> detectTackSideFromHeading(target + Deg(360),
                                                          windDir + Deg(360))]
    /\ UNCHANGED <<raw, deltaSpeedMax, ps, ps2, statType, windDir, autoWindTurn,
                   track, target, fed>>

SpecSide == InitSide /\ [][DoDetectTackSide]_vars

\* rel = (wd - h + 360) mod 360 of the state's heading and wind direction.
RelHeading == (windDir - target + Deg(360)) % Deg(360)

BothDefined == target >= 0 /\ windDir >= 0

\* C21: detectTackSideFromHeading(h, wd) returns starboard iff rel lies in
\* [30, 150], port iff rel lies in [210, 330], and unknown otherwise or when
\* h or wd is undefined; for a heading and a wind direction the result is
\* unchanged when 360 degrees is added to both.
C21_SideClassifier ==
    pc = "sided" =>
        /\ stats.side = TackStarboard <=>
               (BothDefined /\ RelHeading >= Deg(30) /\ RelHeading <= Deg(150))
        /\ stats.side = TackPort <=>
               (BothDefined /\ RelHeading >= Deg(210) /\ RelHeading <= Deg(330))
        /\ stats.side \in {TackStarboard, TackPort, TackUnknown}
        /\ BothDefined => stats.sideTurned = stats.side

\* C21 witness: a heading exactly 30 degrees off the wind, classified
\* starboard before and after the turn by 360 degrees.
C21_Witness ==
    /\ pc = "sided"
    /\ BothDefined
    /\ RelHeading = Deg(30)
    /\ stats.side = TackStarboard
    /\ stats.sideTurned = TackStarboard

-----------------------------------------------------------------------------
(* The same recording analysed twice: once for one statistic (-t k), once  *)
(* for all of them (-t all).  stats holds what the two calls returned.      *)

\* Track.TxtLine(): speed, duration, distance, the timestamp of the first
\* point (the zero time for an empty track) and the tack side, if known.
TxtLine(t) ==
    [speed |-> t.speed, duration |-> t.duration, distance |-> t.distance,
     timestamp |-> IF Len(t.ps) > 0 THEN At(t.ps, 0).ts ELSE -1,
     tackSideString |-> IF TrackTackSide(t) # TackUnknown THEN TrackTackSide(t) ELSE ""]

\* CalcTracksAvg(tracks): the sum of the speeds over the number of tracks.
RECURSIVE SumSpeeds(_, _, _)
SumSpeeds(tracks, i, acc) ==
    IF i >= Len(tracks) THEN acc
    ELSE SumSpeeds(tracks, i + 1,
                   Rat(acc.n * At(tracks, i).speed.d + At(tracks, i).speed.n * acc.d,
                       acc.d * At(tracks, i).speed.d))

CalcTracksAvg(tracks) ==
    Rat(SumSpeeds(tracks, 0, Zero).n, SumSpeeds(tracks, 0, Zero).d * Len(tracks))

\* Stats.TxtSingleStat(statType): the value printed for a single statistic.
TxtSingleStat(s, st) ==
    CASE st = Stat2s -> TxtLine(s.speed2s)
      [] st = StatDistance -> s.totalDistance
      [] st = StatDuration -> s.totalDuration
      [] st = Stat10sAvg -> CalcTracksAvg(s.speed5x10s)
      [] st = Stat10s1 -> TxtLine(At(s.speed5x10s, 0))
      [] st = Stat10s2 -> TxtLine(At(s.speed5x10s, 1))
      [] st = Stat10s3 -> TxtLine(At(s.speed5x10s, 2))
      [] st = Stat10s4 -> TxtLine(At(s.speed5x10s, 3))
      [] st = Stat10s5 -> TxtLine(At(s.speed5x10s, 4))
      [] st = Stat15m -> TxtLine(s.speed15m)
      [] st = Stat1h -> TxtLine(s.speed1h)
      [] st = Stat100m -> TxtLine(s.speed100m)
      [] st = Stat1nm -> TxtLine(s.speed1NM)
      [] st = StatAlpha -> TxtLine(TxtSingleStatAlpha(s))
      [] OTHER -> ""

\* Stats.TxtStats(): the value on the line of statistic st in the full report.
TxtStatsLine(s, st) ==
    CASE st = Stat2s -> TxtLine(s.speed2s)
      [] st = StatDistance -> s.totalDistance
      [] st = StatDuration -> s.totalDuration
      [] st = Stat10sAvg -> CalcTracksAvg(s.speed5x10s)
      [] st = Stat10s1 -> TxtLine(At(s.speed5x10s, 0))
      [] st = Stat10s2 -> TxtLine(At(s.speed5x10s, 1))
      [] st = Stat10s3 -> TxtLine(At(s.speed5x10s, 2))
      [] st = Stat10s4 -> TxtLine(At(s.speed5x10s, 3))
      [] st = Stat10s5 -> TxtLine(At(s.speed5x10s, 4))
      [] st = Stat15m -> TxtLine(s.speed15m)
      [] st = Stat1h -> TxtLine(s.speed1h)
      [] st = Stat100m -> TxtLine(s.speed100m)
      [] st = Stat1nm -> TxtLine(s.speed1NM)
      [] st = StatAlpha -> TxtLine(TxtStatsAlpha500(s))
      [] OTHER -> ""

SingleStats ==
    {StatDistance, StatDuration, Stat2s, Stat15m, Stat1h, Stat100m, Stat1nm, StatAlpha,
     Stat10sAvg, Stat10s1, Stat10s2, Stat10s3, Stat10s4, Stat10s5}

MaxRawSelect == 5

InitSelect ==
    /\ pc = "read"
    /\ raw \in RawInputs(MaxRawSelect, {0, 1, 10}, {-30, 30})
    /\ deltaSpeedMax \in {10000}
    /\ ps = <<>>
    /\ ps2 = <<>>
    /\ statType \in SingleStats
    /\ windDir \in {Deg(45)}
    /\ autoWindTurn = TurnUnknown
    /\ stats = NoStats
    /\ track = EmptyTrack
    /\ target = 0
    /\ fed = <<>>

\* What a run of printStatsForFile prints for statistic st: nothing when
\* CalculateStats panics.
Printed(r, line) == IF r.panic THEN [panic |-> TRUE] ELSE [panic |-> FALSE, value |-> line]

\* A run returned r: the run with -t statType first, then the run with
\* -t all.
RunReturned(r) ==
    IF pc = "cleaned"
    THEN pc' = "single" /\ stats' = [single |-> r]
    ELSE pc' = "compared" /\ stats' = [single |-> stats.single, all |-> r]

\* Two runs on the same cleaned points, each on its own copy: -t statType
\* and -t all.
DoCalculateRun ==
    /\ pc \in {"cleaned", "single"}
    /\ RunReturned(CalculateStats(ps, IF pc = "cleaned" THEN statType ELSE StatAll,
                                  autoWindTurn, windDir))
    /\ UNCHANGED <<raw, deltaSpeedMax, ps, ps2, statType, windDir, autoWindTurn,
                   track, target, fed>>

NextSelect == DoCleanUp \/ DoCalculateRun

SpecSelect == InitSelect /\ [][NextSelect]_vars

\* C22: for every cleaned sequence and every single statistic k, the value
\* reported for k by a run with selector k equals the value reported for k
\* by a run with selector all on a fresh copy of the same points.
C22_SingleEqualsAll ==
    pc = "compared" =>
        Printed(stats.single, TxtSingleStat(stats.single.stats, statType))
            = Printed(stats.all, TxtStatsLine(stats.all.stats, statType))

-----------------------------------------------------------------------------
(* The SBN decoder, on the bytes of a file.                                *)

ErrEOF == "EOF"
ErrUnexpectedEOF == "unexpected EOF"
ErrDecode == "decode error"
ErrUnknownType == "unknown track type"
NoErr == "nil"

\* intFrom2ub(b2)
intFrom2ub(b2) == b2[1] * 256 + b2[2]

\* intFrom4sb(b4): the top bit of the first byte is stripped.
intFrom4sb(b4) ==
    (b4[1] % 128) * 256 * 256 * 256 + b4[2] * 256 * 256 + b4[3] * 256 + b4[4]

\* io.ReadFull(r, buf) with len(buf) = n, reading data from offset off.
ReadFull(data, off, n) ==
    IF n = 0 THEN [err |-> NoErr, buf |-> <<>>, off |-> off]
    ELSE IF Len(data) - off = 0 THEN [err |-> ErrEOF, buf |-> <<>>, off |-> off]
    ELSE IF Len(data) - off < n
         THEN [err |-> ErrUnexpectedEOF, buf |-> SubSeq(data, off + 1, Len(data)),
               off |-> Len(data)]
    ELSE [err |-> NoErr, buf |-> SubSeq(data, off + 1, off + n), off |-> off + n]

\* What readPointSbn returns: a point or none, an error, a panic, and the
\* offset the reader is left at.
SbnResult(off, err, isPoint, ts, x, panic) ==
    [off |-> off, err |-> err, isPoint |-> isPoint, ts |-> ts, x |-> x, panic |-> panic]

SbnError(off, err) == SbnResult(off, err, FALSE, 0, 0, FALSE)

\* csCalc: the sum of the body bytes, masked with 0x7FFF at every step.
RECURSIVE CsCalc(_, _, _)
CsCalc(body, i, acc) ==
    IF i >= Len(body) THEN acc
    ELSE CsCalc(body, i + 1, (acc + At(body, i)) % 32768)

\* The fields of a position body; body[27:31] is the highest slice taken.
SbnPoint(off, body) ==
    IF Len(body) < 31 THEN SbnResult(off, NoErr, FALSE, 0, 0, TRUE)
    ELSE IF At(body, 1) # 0 \/ At(body, 2) # 0 THEN SbnError(off, ErrDecode)
    ELSE SbnResult(off, NoErr, TRUE,
                   At(body, 15) * 3600 + At(body, 16) * 60
                       + intFrom2ub(SubSeq(body, 18, 19)) \div 1000,
                   intFrom4sb(SubSeq(body, 24, 27)), FALSE)

\* readPointSbn after the four reads: body[0] is read before the checksum
\* is compared.
SbnRecord(off, body, checksum, endSequence) ==
    IF endSequence # <<176, 179>> THEN SbnError(off, ErrDecode)
    ELSE IF Len(body) = 0 THEN SbnResult(off, NoErr, FALSE, 0, 0, TRUE)
    ELSE IF At(body, 0) # 41 THEN SbnResult(off, NoErr, FALSE, 0, 0, FALSE)
    ELSE IF intFrom2ub(checksum) # CsCalc(body, 0, 0) THEN SbnError(off, ErrDecode)
    ELSE SbnPoint(off, body)

SbnEnd(data, body, cs, e) ==
    IF e.err # NoErr THEN SbnError(e.off, e.err)
    ELSE SbnRecord(e.off, body, cs.buf, e.buf)

SbnChecksum(data, b, cs) ==
    IF cs.err # NoErr THEN SbnError(cs.off, cs.err)
    ELSE SbnEnd(data, b.buf, cs, ReadFull(data, cs.off, 2))

SbnBody(data, b) ==
    IF b.err # NoErr THEN SbnError(b.off, b.err)
    ELSE SbnChecksum(data, b, ReadFull(data, b.off, 2))

SbnHeader(data, h) ==
    IF h.err # NoErr THEN SbnError(h.off, h.err)
    ELSE SbnBody(data, ReadFull(data, h.off, h.buf[4]))

\* readPointSbn(r), the reader standing at offset off of data.
readPointSbn(data, off) == SbnHeader(data, ReadFull(data, off, 4))

\* ReadPointsSbn(r): the loop "for err == nil".
RECURSIVE SbnLoop(_, _, _)
SbnLoop(data, r, points) ==
    IF r.panic THEN [panic |-> TRUE, err |-> NoErr, ps |-> points]
    ELSE IF r.err # NoErr THEN [panic |-> FALSE, err |-> r.err, ps |-> points]
    ELSE SbnLoop(data, readPointSbn(data, r.off),
                 IF r.isPoint THEN Append(points, Point(r.ts, r.x, Len(points)))
                 ELSE points)

ReadPointsSbn(data) == SbnLoop(data, readPointSbn(data, 0), <<>>)

\* ReadPoints(r): determineType looks at the first four bytes.
ReadPoints(data) ==
    IF Len(data) >= 4 /\ SubSeq(data, 1, 4) = <<160, 162, 0, 34>>
    THEN ReadPointsSbn(data)
    ELSE [panic |-> FALSE, err |-> ErrUnknownType, ps |-> <<>>]

-----------------------------------------------------------------------------
(* main's loop over the files named on the command line.  fed holds the    *)
(* bytes of the files in argument order, target the loop index, stats the  *)
(* lines printed so far, one entry per file.                               *)

\* One record: header, body, big-endian checksum (off by csDelta), end.
SbnRecordBytes(body, csDelta, endSequence) ==
    <<160, 162, 0, Len(body)>> \o body
        \o <<(CsCalc(body, 0, 0) + csDelta) \div 256, (CsCalc(body, 0, 0) + csDelta) % 256>>
        \o endSequence

\* A body of 34 bytes: type, nav-valid, 2022-01-01 00:00, sec seconds, lat.
BodyBytes(type, nav, sec, lat) ==
    [i \in 1..34 |->
        CASE i = 1 -> type
          [] i = 3 -> nav
          [] i = 12 -> 7
          [] i = 13 -> 230
          [] i = 14 -> 1
          [] i = 15 -> 1
          [] i = 18 -> (sec * 1000) \div 256
          [] i = 19 -> (sec * 1000) % 256
          [] i = 27 -> lat
          [] OTHER -> 0]

GoodRecord(sec, lat) == SbnRecordBytes(BodyBytes(41, 0, sec, lat), 0, <<176, 179>>)

\* The second record of a file whose first and third records are good.
MiddleRecords ==
    { GoodRecord(1, 30),
      SbnRecordBytes(BodyBytes(41, 0, 1, 30), 1, <<176, 179>>),
      SbnRecordBytes(BodyBytes(41, 0, 1, 30), 0, <<176, 178>>),
      SbnRecordBytes(BodyBytes(41, 1, 1, 30), 0, <<176, 179>>),
      SbnRecordBytes(BodyBytes(2, 0, 1, 30), 0, <<176, 179>>),
      SbnRecordBytes(BodyBytes(2, 0, 1, 30), 1, <<176, 179>>),
      SbnRecordBytes(SubSeq(BodyBytes(41, 0, 1, 30), 1, 10), 0, <<176, 179>>),
      SbnRecordBytes(<<>>, 0, <<176, 179>>) }

\* The files: three records, a file cut inside its second record or right
\* after the body of it, a file that is no SBN file, an empty file.
Files ==
    { GoodRecord(0, 0) \o m \o GoodRecord(2, 60) : m \in MiddleRecords }
    \cup { SubSeq(GoodRecord(0, 0) \o GoodRecord(1, 30), 1, n) : n \in {60, 80} }
    \cup { <<1, 2, 3, 4, 5, 6>>, <<>> }

MaxFiles == 3

InitFiles ==
    /\ pc = "files"
    /\ raw = <<>>
    /\ deltaSpeedMax = 10000
    /\ ps = <<>>
    /\ ps2 = <<>>
    /\ statType = StatAll
    /\ windDir = Deg(-1)
    /\ autoWindTurn = TurnUnknown
    /\ stats = <<>>
    /\ track = EmptyTrack
    /\ target = 0
    /\ fed \in UNION { [1..n -> Files] : n \in 1..MaxFiles }

\* printStatsForFile after CleanUp returned c.
PrintAfterCleanUp(c, found) ==
    IF c.panic THEN [panic |-> TRUE]
    ELSE [panic |-> CalculateStats(c.ps, statType, autoWindTurn, windDir).panic,
          line |-> "stats", found |-> found, left |-> Len(c.ps)]

\* printStatsForFile after ReadPoints returned r.
PrintAfterRead(r) ==
    IF r.panic THEN [panic |-> TRUE]
    ELSE IF r.err # ErrEOF THEN [panic |-> FALSE, line |-> "error", err |-> r.err]
    ELSE PrintAfterCleanUp(CleanUp(r.ps, deltaSpeedMax), Len(r.ps))

\* printStatsForFile(flag.Args()[i], ...): what it prints, or a panic.
printStatsForFile(data) == PrintAfterRead(ReadPoints(data))

\* One turn of "for i := 0; i < len(flag.Args()); i++".
FileStep(out) ==
    IF out.panic
    THEN pc' = Panicked /\ UNCHANGED <<stats, target>>
    ELSE /\ stats' = Append(stats, out)
         /\ target' = target + 1
         /\ pc' = IF target + 1 < Len(fed) THEN "files" ELSE "exit"

DoFile ==
    /\ pc = "files"
    /\ target < Len(fed)
    /\ FileStep(printStatsForFile(At(fed, target)))
    /\ UNCHANGED <<raw, deltaSpeedMax, ps, ps2, statType, windDir, autoWindTurn,
                   track, fed>>

SpecFiles == InitFiles /\ [][DoFile]_vars

\* Reading the file fails with a decode error or an unknown format.
ReadFails(data) ==
    /\ ~ReadPoints(data).panic
    /\ ReadPoints(data).err \in {ErrUnexpectedEOF, ErrDecode, ErrUnknownType}

\* C23: the files are processed one at a time in argument order; when
\* reading file i fails with a decode error or its format is unknown, the
\* error is reported, no statistics are printed for file i, and every later
\* file is still processed: the loop never stops before the last file, and
\* the entry of a file is an error line exactly when reading it fails.
C23_FilesIndependent ==
    /\ pc # Panicked
    /\ Len(stats) = target
    /\ pc = "exit" => target = Len(fed)
    /\ \A i \in 1..Len(stats) : ReadFails(fed[i]) <=> stats[i].line = "error"

\* ---------------------------------------------------------------------------
\* C24: the checksum of every record
\* ---------------------------------------------------------------------------

RECURSIVE SumBytes(_)
SumBytes(bytes) ==
    IF bytes = <<>> THEN 0 ELSE Head(bytes) + SumBytes(Tail(bytes))

\* The record that starts after the first off bytes is complete in data.
FrameComplete(data, off) ==
    /\ off + 4 <= Len(data)
    /\ off + 8 + data[off + 4] <= Len(data)

\* The stored checksum of that record differs from the sum of its body bytes
\* masked with 0x7FFF.
FrameChecksumWrong(data, off) ==
    data[off + 5 + data[off + 4]] * 256 + data[off + 6 + data[off + 4]]
        # SumBytes(SubSeq(data, off + 5, off + 4 + data[off + 4])) % 32768

\* Some complete record of the file, of whatever type, has a wrong checksum.
RECURSIVE HasWrongChecksum(_, _)
HasWrongChecksum(data, off) ==
    /\ FrameComplete(data, off)
    /\ \/ FrameChecksumWrong(data, off)
       \/ HasWrongChecksum(data, off + 8 + data[off + 4])

\* C24: readPointSbn verifies the checksum of every record: a file with a
\* record whose checksum does not match, whether or not its body starts with
\* 0x29, is reported with a decode error instead of statistics.
C24_ChecksumEveryRecord ==
    \A i \in 1..Len(stats) :
        HasWrongChecksum(fed[i], 0) => stats[i].line = "error"

\* ---------------------------------------------------------------------------
\* C25: turn tracks are the maximal windows with one change of side
\* ---------------------------------------------------------------------------

\* Position i (from 1) opens a run of one tack side: its side is known and
\* differs from the side of the last known point before it, if any.
IsRunStart(pts, i) ==
    /\ pts[i].tackSide # TackUnknown
    /\ \A j \in 1..(i - 1) :
          (/\ pts[j].tackSide # TackUnknown
           /\ \A k \in (j + 1)..(i - 1) : pts[k].tackSide = TackUnknown)
          => pts[j].tackSide # pts[i].tackSide

RunStarts(pts) == { i \in 1..Len(pts) : IsRunStart(pts, i) }

\* The k-th run start of the sequence.
RunStart(pts, k) ==
    CHOOSE i \in RunStarts(pts) :
        Cardinality({ j \in RunStarts(pts) : j < i }) = k - 1

\* The last position of the window of the runs k and k + 1.
WindowEnd(pts, k) ==
    IF k + 2 <= Cardinality(RunStarts(pts))
    THEN RunStart(pts, k + 2) - 1
    ELSE Len(pts)

\* The maximal window with the single change of side from run k to run k + 1.
MaximalWindow(pts, k) == SubSeq(pts, RunStart(pts, k), WindowEnd(pts, k))

TurnTracksAreMaximal(pts, tts) ==
    /\ Len(tts) = (IF RunStarts(pts) = {} THEN 0 ELSE Cardinality(RunStarts(pts)) - 1)
    /\ \A k \in 1..Len(tts) : tts[k].ps = MaximalWindow(pts, k)

\* C25: every turn track returned by collectTurnTracks is the maximal
\* contiguous window with exactly one change of tack side: it starts at the
\* first known-side point of the outgoing run and ends at the last point
\* before the next change, for every turn track of the sequence.
C25_TurnTracksMaximal ==
    pc = "done" => TurnTracksAreMaximal(ps, collectTurnTracks(ps))

\* ---------------------------------------------------------------------------
\* C26: the pair of points a replayed change of side is classified from
\* ---------------------------------------------------------------------------

\* Steps 1 to 5 of autoDetectWindDir and the first candidate of step 6:
\* wdAssumed, or -1 where the detector returns before the replay.
AssumedWindDir(pts) ==
    IF Len(pts) < 2 THEN Deg(-1)
    ELSE LET primaryBin == PrimaryBin(pts) IN
         IF primaryBin = -1 THEN Deg(-1)
         ELSE LET secondaryBin == SecondaryBin(pts, primaryBin) IN
              IF secondaryBin = -1 THEN Deg(-1)
              ELSE LET selected == SelectedHeadings(pts, 0, primaryBin, secondaryBin) IN
                   IF Len(selected) = 0 THEN Deg(-1)
                   ELSE LET mean == CircularMean(selected)
                            avgHeading == IF mean < 0 THEN mean + Deg(360) ELSE mean
                        IN  (avgHeading + Deg(90)) % Deg(360)

\* The replay loop of step 6, recording the arguments (pTurnBegin, pTurnEnd)
\* of every call of detectTurnTypeFromTurnPoints.
RECURSIVE ReplayPairs(_, _, _, _)
ReplayPairs(pts, i, wdAssumed, r) ==
    IF i >= Len(pts) THEN r.pairs
    ELSE LET p == At(pts, i)
             t == detectTackSideFromHeading(p.heading, wdAssumed)
             r1 == IF t = TackUnknown THEN r
                   ELSE IF r.tackSidePrev = TackUnknown
                        THEN [r EXCEPT !.tackSidePrev = t, !.tackSideCurr = t]
                   ELSE IF t = r.tackSideCurr
                        THEN [r EXCEPT !.pTurnBegin = p]
                   ELSE [r EXCEPT !.tackSideCurr = t, !.tackSidePrev = t,
                                  !.pairs = Append(@, <<r.pTurnBegin, p>>)]
         IN  ReplayPairs(pts, i + 1, wdAssumed, r1)

ReplayedPairs(pts, wdAssumed) ==
    ReplayPairs(pts, 0, wdAssumed,
                [pTurnBegin |-> [ZeroPoint EXCEPT !.heading = Deg(-1)],
                 tackSidePrev |-> TackUnknown, tackSideCurr |-> TackUnknown,
                 pairs |-> <<>>])

\* The side of the point at position i (from 1) against wd.
SideAt(pts, i, wd) == detectTackSideFromHeading(pts[i].heading, wd)

\* The position of the last point before i with a known side, 0 if none.
LastKnownBefore(pts, i, wd) ==
    MaxOf({0} \cup { j \in 1..(i - 1) : SideAt(pts, j, wd) # TackUnknown })

\* Position i is a change of side: a known side that differs from the side
\* of the last known point before it.
IsSideChange(pts, i, wd) ==
    /\ SideAt(pts, i, wd) # TackUnknown
    /\ LastKnownBefore(pts, i, wd) # 0
    /\ SideAt(pts, LastKnownBefore(pts, i, wd), wd) # SideAt(pts, i, wd)

SideChanges(pts, wd) == { i \in 1..Len(pts) : IsSideChange(pts, i, wd) }

\* The k-th change of side.
SideChange(pts, wd, k) ==
    CHOOSE i \in SideChanges(pts, wd) :
        Cardinality({ j \in SideChanges(pts, wd) : j < i }) = k - 1

\* For every change of side, the last preceding point on the previous side
\* and the first point on the new side.
StatedPairs(pts, wd) ==
    [k \in 1..Cardinality(SideChanges(pts, wd)) |->
        << pts[LastKnownBefore(pts, SideChange(pts, wd, k), wd)],
           pts[SideChange(pts, wd, k)] >>]

\* C26: in the replay of the wind detector every recognized change of side
\* is classified from the pair (begin, end) where end is the first point on
\* the new side and begin is the last preceding point on the previous side,
\* also when the run of the previous side is a single point.
C26_ReplayBeginPoint ==
    (pc = "done" /\ windDir < 0 /\ AssumedWindDir(ps) >= 0) =>
        ReplayedPairs(ps, AssumedWindDir(ps)) = StatedPairs(ps, AssumedWindDir(ps))

\* ---------------------------------------------------------------------------
\* C27: one replay against wdA decides between the two candidates
\* ---------------------------------------------------------------------------

\* Courses off the meridian: legs of 30 m to the north, south, east,
\* south-east and south-west, and samples that did not move.
MaxRawGrid == 5

GridSteps == {<<30, 0>>, <<-30, 0>>, <<0, 30>>, <<-30, 30>>, <<-30, -30>>, <<0, 0>>}

\* The Point of a sample dNorth, dEast metres from the first one.
GridPoint(ts, x, east, idx) ==
    [ts |-> ts, x |-> x, east |-> east, globalIdx |-> idx, usedFor10s |-> FALSE,
     heading |-> Deg(-1), tackSide |-> TackUnknown]

RECURSIVE GridFrom(_, _, _)
GridFrom(moves, i, acc) ==
    IF i > Len(moves) THEN acc
    ELSE GridFrom(moves, i + 1,
                  Append(acc, GridPoint(acc[Len(acc)].ts + 1,
                                        acc[Len(acc)].x + moves[i][1],
                                        acc[Len(acc)].east + moves[i][2],
                                        Len(acc))))

GridInputs(maxLen) ==
    UNION { { GridFrom(m, 1, <<GridPoint(0, 0, 0, 0)>>) : m \in [1..k -> GridSteps] }
            : k \in 0..(maxLen - 1) }

InitGrid ==
    /\ pc = "recorded"
    /\ raw = <<>>
    /\ deltaSpeedMax = 0
    /\ ps \in GridInputs(MaxRawGrid)
    /\ ps2 = <<>>
    /\ statType = StatAll
    /\ windDir = Deg(-1)
    /\ autoWindTurn \in {TurnUnknown, TurnJibe, TurnTack}
    /\ stats = NoStats
    /\ track = EmptyTrack
    /\ target = 0
    /\ fed = <<>>

\* CalculateStats up to the detection: the headings, then autoDetectWindDir.
DoDetectGrid ==
    /\ pc = "recorded"
    /\ pc' = "detected"
    /\ ps' = WithHeadings(ps)
    /\ stats' = [w |-> autoDetectWindDir(WithHeadings(ps),
                                         IF autoWindTurn # TurnUnknown
                                         THEN autoWindTurn ELSE TurnJibe)]
    /\ UNCHANGED <<raw, deltaSpeedMax, ps2, statType, windDir, autoWindTurn,
                   track, target, fed>>

SpecGrid == InitGrid /\ [][DoDetectGrid]_vars

\* The number of maneuvers of the preferred kind (jibes by default) that
\* the replay of the sequence counts against the candidate wd.
ReplayCount(r, prefer) == IF prefer = TurnTack THEN r.tackCnt ELSE r.jibeCnt

PreferredCount(pts, wd, prefer) ==
    ReplayCount(ReplayTurns(pts, 0, wd,
                            [pTurnBegin |-> [ZeroPoint EXCEPT !.heading = Deg(-1)],
                             tackSidePrev |-> TackUnknown,
                             tackSideCurr |-> TackUnknown,
                             jibeCnt |-> 0, tackCnt |-> 0]),
                prefer)

\* The second candidate: mean - 90 = wdA - 180 (mod 360).
OtherCandidate(wdA) == (wdA + Deg(180)) % Deg(360)

\* The candidate with the larger count of the preferred maneuver over the
\* replays against both candidates, wdA on a tie.
LargerCountCandidate(pts, wdA, prefer) ==
    IF PreferredCount(pts, wdA, prefer) >= PreferredCount(pts, OtherCandidate(wdA), prefer)
    THEN wdA
    ELSE OtherCandidate(wdA)

C28_CleanUpReturns == pc # Panicked

\* ---------------------------------------------------------------------------
\* C29: CalculateStats run twice on the same points
\* ---------------------------------------------------------------------------

\* Recordings with samples 1 s and 10 s apart, analysed twice in a row.
MaxRawRepeat == 5

InitRepeat ==
    /\ pc = "read"
    /\ raw \in RawInputs(MaxRawRepeat, {1, 10}, {10, 30})
    /\ deltaSpeedMax \in {10000}
    /\ ps = <<>>
    /\ ps2 = <<>>
    /\ statType \in {StatAll}
    /\ windDir \in {Deg(-1), Deg(45)}
    /\ autoWindTurn = TurnUnknown
    /\ stats = NoStats
    /\ track = NoStats
    /\ target = 0
    /\ fed = <<>>

\* A call returned r, its points and its Stats: the first call, then the
\* second.
RepeatReturned(r) ==
    IF r.panic
    THEN pc' = Panicked /\ UNCHANGED <<ps, ps2, stats, track>>
    ELSE IF pc = "cleaned"
    THEN pc' = "done" /\ ps' = r.ps /\ stats' = r.stats /\ UNCHANGED <<ps2, track>>
    ELSE pc' = "done2" /\ ps' = r.ps /\ ps2' = ps /\ track' = r.stats /\ stats' = stats

\* CalculateStats called on the cleaned points, and called again on the
\* slice the first call worked on, with the same arguments.
DoCalculateStatsRepeat ==
    /\ pc \in {"cleaned", "done"}
    /\ RepeatReturned(CalculateStats(ps, statType, autoWindTurn, windDir))
    /\ UNCHANGED <<raw, deltaSpeedMax, statType, windDir, autoWindTurn, target, fed>>

NextRepeat == DoCleanUp \/ DoCalculateStatsRepeat

SpecRepeat == InitRepeat /\ [][NextRepeat]_vars

\* The five 10 s tracks of a Stats: the samples (second, position) of each
\* and its speed.
Picks10s(s) ==
    [k \in 1..5 |->
        [samples |-> [j \in 1..Len(s.speed5x10s[k].ps) |->
                         <<s.speed5x10s[k].ps[j].ts, s.speed5x10s[k].ps[j].x>>],
         speed |-> s.speed5x10s[k].speed]]

\* C29: CalculateStats is repeatable: run twice in a row on the same point
\* slice with the same arguments it returns the same five 10 s tracks; the
\* used_for_10s flags set during one run do not influence the next.
C29_Repeatable ==
    pc = "done2" => Picks10s(track) = Picks10s(stats)

\* ---------------------------------------------------------------------------
\* C30: samples that did not move and the wind detector
\* ---------------------------------------------------------------------------

MaxRawInsert == 5

\* The recording with one more sample taken at the place of its k-th point,
\* one second after it; the later samples are one second later.
InsertStationary(pts, k) ==
    [i \in 1..(Len(pts) + 1) |->
        IF i <= k THEN pts[i]
        ELSE [pts[i - 1] EXCEPT !.ts = @ + 1, !.globalIdx = i - 1]]

InitInsert ==
    /\ pc = "recorded"
    /\ raw = <<>>
    /\ deltaSpeedMax = 0
    /\ ps \in RawInputs(MaxRawInsert, {1}, {-30, 0, 30})
    /\ ps2 = <<>>
    /\ statType = StatAll
    /\ windDir = Deg(-1)
    /\ autoWindTurn \in {TurnUnknown, TurnJibe, TurnTack}
    /\ stats = NoStats
    /\ track = EmptyTrack
    /\ target \in 1..MaxRawInsert
    /\ target <= Len(ps)
    /\ fed = <<>>

\* The same course recorded with a sample more, at the place of point target.
DoInsert ==
    /\ pc = "recorded"
    /\ pc' = "inserted"
    /\ ps2' = InsertStationary(ps, target)
    /\ UNCHANGED <<raw, deltaSpeedMax, ps, statType, windDir, autoWindTurn, stats,
                   track, target, fed>>

\* CalculateStats on both recordings: the headings, then autoDetectWindDir.
DoDetectInserted ==
    /\ pc = "inserted"
    /\ pc' = "detected"
    /\ ps' = WithHeadings(ps)
    /\ ps2' = WithHeadings(ps2)
    /\ stats' = [w |-> autoDetectWindDir(WithHeadings(ps), autoWindTurn),
                 wInserted |-> autoDetectWindDir(WithHeadings(ps2), autoWindTurn)]
    /\ UNCHANGED <<raw, deltaSpeedMax, statType, windDir, autoWindTurn,
                   track, target, fed>>

NextInsert == DoInsert \/ DoDetectInserted

SpecInsert == InitInsert /\ [][NextInsert]_vars

\* C30: points with an undefined heading (-1) do not contribute to the
\* histogram or the cluster means of the wind detector: inserting a
\* stationary point into a sequence does not change the direction
\* autoDetectWindDir returns.
C30_StationaryIgnored ==
    pc = "detected" => stats.wInserted = stats.w

=============================================================================
